---- MODULE Spec2Model ----
(***************************************************************************)
(* TaskFlow: the task list of the State Owner (src/src/App.jsx) and the    *)
(* List Editor (src/src/components/TasksFixed.jsx), with the persistence   *)
(* platform, its change feed and the calls in flight between them.         *)
(*                                                                         *)
(* One step of the model is one event-loop turn of the browser: the        *)
(* handler or callback, the re-render it causes, and the effects that run  *)
(* after that render (the tasksProp -> local copy sync of TasksFixed and   *)
(* its two auto-priority effects).  The List Editor is mounted exactly     *)
(* while a user is signed in (App.jsx:336).                                *)
(***************************************************************************)
EXTENDS Integers, Sequences, FiniteSets, TLC

\* ------------------------------------------------------------------ bounds
MaxIds == 2          \* ids the storage may assign: 1..MaxIds
MaxDay == 1          \* the clock runs over the days 0..MaxDay
MaxFetch == 2        \* loadAll calls outstanding at once
MaxFeed == 2         \* change-feed events waiting for delivery
MaxExt == 1          \* writes made by other sessions
MaxCalls == 1        \* create, toggle, edit and delete calls the user makes
MaxLen == 2          \* length of the lists the pure functions are applied to

\* ------------------------------------------------------- program constants
DAY_IN_MS == 86400000
TWO_DAYS_IN_MS == DAY_IN_MS * 2
HOUR_IN_MS == 3600000
MINUTE_IN_MS == 60000
\* the wall clock reads 10:00 on every day the model looks at it
ClockHour == 10

\* ------------------------------------------------------------------- data
NoUser == "null"
Users == {"u1", "u2"}
Ids == 1..MaxIds
NoId == 0                      \* an undefined id
NoStamp == -1                  \* no updated_at key
NoInput == -1                  \* an empty form field
Priorities == {"low", "medium", "high"}
ErrMsg == "request failed"     \* the message of a platform error

\* A due date is a timestamp in a textual form: "raw" is the form the
\* platform returns, "iso" the form Date.prototype.toISOString() produces.
NoDate == [has |-> FALSE, ts |-> 0, fmt |-> "null"]
RawDate(t) == [has |-> TRUE, ts |-> t, fmt |-> "raw"]
IsoDate(t) == [has |-> TRUE, ts |-> t, fmt |-> "iso"]

\* A row of the tasks table as the platform returns it; nulls names the
\* columns that are null in it.
MkRow(i, u, t, d, due, c, p) ==
  [id |-> i, user_id |-> u, title |-> t, description |-> d, due_date |-> due,
   completed |-> c, priority |-> p, nulls |-> {}]
NoRow == [id |-> NoId, user_id |-> NoUser, title |-> "", description |-> "",
          due_date |-> NoDate, completed |-> FALSE, priority |-> "",
          nulls |-> {"title", "description", "due_date", "completed", "priority"}]

\* An entry of the in-memory list.
NoTask == [id |-> NoId, title |-> "", description |-> "", dueDate |-> NoDate,
           completed |-> FALSE, priority |-> "", updated_at |-> NoStamp]

\* ---------------------------------------------------------- pure functions
normalizeTaskDropsDescription(row) ==
  [id |-> row.id,
   title |-> row.title,
   description |-> "",
   dueDate |-> IF "due_date" \in row.nulls THEN NoDate ELSE row.due_date,
   completed |-> IF "completed" \in row.nulls THEN FALSE ELSE row.completed,
   priority |-> IF "priority" \in row.nulls THEN "medium" ELSE row.priority,
   updated_at |-> NoStamp]

normalizeTask(row) ==
  [id |-> row.id,
   title |-> row.title,
   description |-> IF "description" \in row.nulls THEN "" ELSE row.description,
   dueDate |-> IF "due_date" \in row.nulls THEN NoDate ELSE row.due_date,
   completed |-> IF "completed" \in row.nulls THEN FALSE ELSE row.completed,
   priority |-> IF "priority" \in row.nulls THEN "medium" ELSE row.priority,
   updated_at |-> NoStamp]

normalizeDueDateValue(value) ==
  IF ~value.has THEN NoDate ELSE IsoDate(value.ts)

mapTaskRow(row) ==
  [id |-> row.id,
   title |-> row.title,
   description |-> IF "description" \in row.nulls THEN "" ELSE row.description,
   dueDate |-> IF "due_date" \in row.nulls THEN NoDate
               ELSE normalizeDueDateValue(row.due_date),
   completed |-> IF "completed" \in row.nulls THEN FALSE ELSE row.completed,
   priority |-> IF "priority" \in row.nulls THEN "medium" ELSE row.priority,
   updated_at |-> NoStamp]

\* String.prototype.localeCompare on the titles of the model: the sign of
\* the difference of their collation ranks.
TitleRank(s) == CASE s = "" -> 0 [] s = "a" -> 1 [] s = "b" -> 2 [] OTHER -> 3
localeCompare(x, y) == TitleRank(x) - TitleRank(y)

\* The comparator of sortTasks: negative, zero or positive.
CompareTasks(a, b) ==
  LET aHasDate == a.dueDate.has
      bHasDate == b.dueDate.has
  IN  IF aHasDate /\ bHasDate
      THEN IF a.dueDate.ts # b.dueDate.ts
           THEN a.dueDate.ts - b.dueDate.ts
           ELSE localeCompare(a.title, b.title)
      ELSE IF aHasDate THEN -1
      ELSE IF bHasDate THEN 1
      ELSE localeCompare(a.title, b.title)

\* Array.prototype.sort is stable: an element goes behind every element that
\* does not compare greater than it.
RECURSIVE InsertStable(_, _)
InsertStable(t, s) ==
  IF s = <<>> THEN <<t>>
  ELSE IF CompareTasks(t, Head(s)) < 0 THEN <<t>> \o s
  ELSE <<Head(s)>> \o InsertStable(t, Tail(s))

RECURSIVE SortFrom(_, _)
SortFrom(acc, rest) ==
  IF rest = <<>> THEN acc ELSE SortFrom(InsertStable(Head(rest), acc), Tail(rest))

sortTasks(collection) == SortFrom(<<>>, collection)

\* Array helpers
IdsOf(list) == {list[i].id : i \in 1..Len(list)}
FindIndex(list, id) ==
  IF id \in IdsOf(list)
  THEN CHOOSE i \in 1..Len(list) :
         list[i].id = id /\ \A j \in 1..(i - 1) : list[j].id # id
  ELSE 0
Find(list, id) == IF FindIndex(list, id) = 0 THEN NoTask ELSE list[FindIndex(list, id)]
MapId(list, id, entry) ==
  [i \in 1..Len(list) |-> IF list[i].id = id THEN entry ELSE list[i]]
RemoveId(list, id) == LET Keep(t) == t.id # id IN SelectSeq(list, Keep)

handleChildTasksChangeUnsorted(nextValue) == nextValue

\* handleChildTasksChange with an array argument (the List Editor always
\* forwards the array its updater produced).
handleChildTasksChange(nextValue) == sortTasks(nextValue)

\* A change-feed payload.  isNull: the payload itself is null; oldId: the id
\* of payload.old (NoId when old or its id is missing); hasNew: payload.new is
\* an object; new: that object.
Payload(type, oldId, hasNew, new) ==
  [isNull |-> FALSE, eventType |-> type, oldId |-> oldId, hasNew |-> hasNew, new |-> new]
NullPayload ==
  [isNull |-> TRUE, eventType |-> "", oldId |-> NoId, hasNew |-> FALSE, new |-> NoRow]

applyRealtimeChange(current, payload) ==
  IF payload.isNull THEN current
  ELSE IF payload.eventType = "DELETE" /\ payload.oldId # NoId
       THEN RemoveId(current, payload.oldId)
  ELSE IF ~payload.hasNew THEN current
  ELSE LET incoming == normalizeTask(payload.new)
           existingIndex == FindIndex(current, incoming.id)
       IN  IF existingIndex = 0
           THEN sortTasks(Append(current, incoming))
           ELSE sortTasks([current EXCEPT ![existingIndex] = incoming])


\* ----------------------------------------------- List Editor: pure helpers
shouldAutoElevatePriorityPastOnly(dueDate, nowTs) ==
  IF ~dueDate.has THEN FALSE
  ELSE dueDate.ts - nowTs <= 0

shouldAutoElevatePriority(dueDate, nowTs) ==
  IF ~dueDate.has THEN FALSE
  ELSE LET diff == dueDate.ts - nowTs
       IN  IF diff <= 0 THEN TRUE ELSE diff <= DAY_IN_MS

shouldAutoPromoteToMediumNarrow(dueDate, nowTs) ==
  IF ~dueDate.has THEN FALSE
  ELSE LET diff == dueDate.ts - nowTs
       IN  diff > DAY_IN_MS /\ diff <= DAY_IN_MS + HOUR_IN_MS

shouldAutoPromoteToMedium(dueDate, nowTs) ==
  IF ~dueDate.has THEN FALSE
  ELSE LET diff == dueDate.ts - nowTs
       IN  diff > DAY_IN_MS /\ diff <= TWO_DAYS_IN_MS

didExtendDueDate(previousDueDate, nextDueDate) ==
  IF ~previousDueDate.has \/ ~nextDueDate.has THEN FALSE
  ELSE nextDueDate.ts > previousDueDate.ts

\* String.prototype.trim on the texts of the model
Trim(s) == CASE s = " " -> "" [] s = " b" -> "b" [] s = " d" -> "d" [] OTHER -> s

\* The form fields: a date field is empty (NoInput) or holds the calendar day
\* with that index; an hour or minute field is empty or holds a number.
StartOfDay(ts) == (ts \div DAY_IN_MS) * DAY_IN_MS

validateDueDate(dateString, nowTs) ==
  IF dateString = NoInput THEN FALSE
  ELSE ~(dateString * DAY_IN_MS < StartOfDay(nowTs))

validateTimeFields(hourValue, minuteValue) ==
  IF hourValue = NoInput \/ minuteValue = NoInput THEN FALSE
  ELSE IF hourValue < 1 \/ hourValue > 12 THEN FALSE
  ELSE IF minuteValue < 0 \/ minuteValue > 59 THEN FALSE
  ELSE TRUE

\* Number("") is 0; an hour above 23 or a minute above 59 gives an invalid
\* Date, and buildUtcDate returns null for it.
buildUtcDate(date, hour, minute, period) ==
  LET h0 == IF hour = NoInput THEN 0 ELSE hour
      h  == IF period = "PM" /\ h0 # 12 THEN h0 + 12
            ELSE IF period = "AM" /\ h0 = 12 THEN 0 ELSE h0
      minuteValue == IF minute = NoInput THEN 0 ELSE minute
  IN  IF h > 23 \/ minuteValue > 59 THEN NoDate
      ELSE IsoDate(date * DAY_IN_MS + h * HOUR_IN_MS + minuteValue * MINUTE_IN_MS)

buildDueDateIso(dateInput, hourInput, minuteInput, periodInput) ==
  IF dateInput = NoInput THEN NoDate
  ELSE buildUtcDate(dateInput, hourInput, minuteInput, periodInput)

\* The checks both forms make on the built due date: "date" when its day lies
\* before today, "time" when it is not after now, "" when it passes.
DueDateProblem(dueDateIso, nowTs) ==
  IF ~dueDateIso.has THEN ""
  ELSE IF StartOfDay(dueDateIso.ts) < StartOfDay(nowTs) THEN "date"
  ELSE IF dueDateIso.ts <= nowTs THEN "time"
  ELSE ""


\* ------------------------------------------------------------------ state
VARIABLES
  \* State Owner (AppContent)
  user, tasks, tasksLoading, tasksError,
  \* List Editor (TasksFixed); its copy of the list equals tasks after the
  \* sync effect of every render
  isMutating, mutationError, optimisticEditRef, editTaskId,
  autoHighPriorityRef, autoMediumPriorityRef, now,
  \* persistence platform
  db, nextId, owners, feed, extCount,
  \* calls in flight
  muts, escs, fetches,
  \* history variables of the properties
  last, lastWrite, escLog, pre, created, rt,
  \* the create, toggle, edit and delete calls issued so far
  issued,
  \* ThemeProvider: its state, the browser's local storage, and the last
  \* action on it
  th

appVars == <<user, tasks, tasksLoading, tasksError>>
editorVars == <<isMutating, mutationError, optimisticEditRef, editTaskId,
                autoHighPriorityRef, autoMediumPriorityRef>>
serverVars == <<db, nextId, owners, feed, extCount>>
netVars == <<muts, escs, fetches>>
histVars == <<last, lastWrite, escLog, pre, created>>
taskVars == <<appVars, editorVars, now, serverVars, netVars, histVars, rt, issued>>
vars == <<taskVars, th>>

NoRef == [id |-> NoId, snapshot |-> NoTask]
NoPre == [id |-> NoId, list |-> <<>>, snapshot |-> NoTask, dirty |-> FALSE]
Outcome(op, res, id) == [op |-> op, res |-> res, id |-> id, user |-> NoUser, after |-> {}]
Idle == Outcome("", "", NoId)
Wrote(entry, src) == [val |-> entry, src |-> src]
NoWrite == Wrote(NoTask, "")
NoWrites == [i \in Ids |-> NoWrite]
NoCreated == [clean |-> FALSE, confirmed |-> FALSE, title |-> "", description |-> "", due |-> NoDate,
              priority |-> ""]
RtIdle == [n |-> 0, list |-> <<>>, payload |-> NullPayload, once |-> <<>>, twice |-> <<>>]

\* ------------------------------------------- ThemeProvider (ThemeContext.jsx)
\* The ids of themes.js, one id that names no theme, and a missing entry
DEFAULT_THEME_ID == "default"
ThemeIds == {"default", "contrast", "ocean"}
UnknownThemeId == "retired"
NoEntry == ""
LOGIN_THEME_ID == IF "contrast" \in ThemeIds THEN "contrast" ELSE DEFAULT_THEME_ID
STORAGE_KEY_PREFIX == "taskflow-theme"

\* one storage key for every identity
getStorageKeyShared(userId) == STORAGE_KEY_PREFIX

getStorageKey(userId) ==
  IF userId # NoUser THEN STORAGE_KEY_PREFIX \o "-" \o userId ELSE STORAGE_KEY_PREFIX

\* the keys the local storage can hold entries for
ThemeKeys == {STORAGE_KEY_PREFIX} \cup {STORAGE_KEY_PREFIX \o "-" \o u : u \in Users}

resolveThemeId(candidate) ==
  IF candidate = NoEntry THEN DEFAULT_THEME_ID
  ELSE IF candidate \in ThemeIds THEN candidate ELSE DEFAULT_THEME_ID

getInitialThemeId(storage, userId) ==
  LET stored == storage[getStorageKey(userId)]
  IN  IF stored \in ThemeIds THEN stored ELSE DEFAULT_THEME_ID

\* the persist effect (151-159): it runs after a render in which the theme
\* or the user id changed
Persisted(storage, userId, themeId, changed) ==
  IF changed THEN [storage EXCEPT ![getStorageKey(userId)] = themeId] ELSE storage

NoChoice == [u \in Users \cup {NoUser} |-> NoEntry]
ThemeAct(op, u, arg) == [op |-> op, user |-> u, arg |-> arg]

\* ThemeProvider after its first render and effects over a local storage
ThemeMounted(storage) ==
  [currentUser |-> NoUser,
   preferredThemeId |-> getInitialThemeId(storage, NoUser),
   isAuthenticated |-> FALSE,
   storage |-> Persisted(storage, NoUser, getInitialThemeId(storage, NoUser), TRUE),
   chose |-> NoChoice,
   last |-> ThemeAct("", NoUser, NoEntry)]

ThemeIdle == ThemeMounted([k \in ThemeKeys |-> NoEntry])

resolvedThemeId(t) == IF t.isAuthenticated THEN t.preferredThemeId ELSE LOGIN_THEME_ID
activeThemeId(t) == resolveThemeId(resolvedThemeId(t))

\* onAuthStateChange with the session of u, or with none (123-137); the
\* getSession callback (111-122) does the same for a stored session
ThemeAuth(u) ==
  LET userTheme == getInitialThemeId(th.storage, u)
  IN  /\ th' = [th EXCEPT
                  !.currentUser = u,
                  !.isAuthenticated = (u # NoUser),
                  !.preferredThemeId = userTheme,
                  !.storage = Persisted(th.storage, u, userTheme,
                                        userTheme # th.preferredThemeId \/ u # th.currentUser),
                  !.last = ThemeAct("auth", u, NoEntry)]
      /\ UNCHANGED taskVars

\* setTheme (179-187) and the render that follows
setTheme(nextThemeId) ==
  LET currentId == th.preferredThemeId
      chosen == IF nextThemeId = NoEntry \/ currentId = nextThemeId THEN currentId
                ELSE IF nextThemeId \in ThemeIds THEN nextThemeId ELSE currentId
  IN  /\ th' = [th EXCEPT
                  !.preferredThemeId = chosen,
                  !.storage = Persisted(th.storage, th.currentUser, chosen, chosen # currentId),
                  !.chose = [@ EXCEPT ![th.currentUser] = chosen],
                  !.last = ThemeAct("setTheme", th.currentUser, nextThemeId)]
      /\ UNCHANGED taskVars

\* the clock of day d
ClockAt(d) == d * DAY_IN_MS + ClockHour * HOUR_IN_MS

\* ------------------------------------------ auto-priority effects (117-205)
HighCandidates(list, nowTs) ==
  {list[j].id : j \in {i \in 1..Len(list) :
      /\ ~list[i].completed
      /\ list[i].priority # "high"
      /\ shouldAutoElevatePriority(list[i].dueDate, nowTs)}}

MediumCandidates(list, nowTs) ==
  {list[j].id : j \in {i \in 1..Len(list) :
      /\ list[i].priority = "low"
      /\ shouldAutoPromoteToMedium(list[i].dueDate, nowTs)}}

SetPriority(list, ids, p) ==
  [i \in 1..Len(list) |->
     IF list[i].id \in ids THEN [list[i] EXCEPT !.priority = p] ELSE list[i]]

EscCall(ids, p, u) == [ids |-> ids, priority |-> p, user |-> u]

\* One render's pair of effects, repeated until a render finds no candidate.
\* Both effects of a render read the same list; their updaters run in turn.
RECURSIVE RunEffects(_, _, _, _, _, _)
RunEffects(list, nowTs, high, med, calls, u) ==
  LET dueSoonIds == HighCandidates(list, nowTs)
      mediumIds == MediumCandidates(list, nowTs)
      afterHigh == IF dueSoonIds = {} THEN list
                   ELSE handleChildTasksChange(SetPriority(list, dueSoonIds, "high"))
      afterMedium == IF mediumIds = {} THEN afterHigh
                     ELSE handleChildTasksChange(SetPriority(afterHigh, mediumIds, "medium"))
      highToPersist == dueSoonIds \ high
      mediumToPersist == mediumIds \ med
      newCalls == (IF highToPersist = {} THEN {} ELSE {EscCall(highToPersist, "high", u)})
                  \cup
                  (IF mediumToPersist = {} THEN {} ELSE {EscCall(mediumToPersist, "medium", u)})
  IN  IF dueSoonIds = {} /\ mediumIds = {}
      THEN [list |-> list, high |-> high, med |-> med, calls |-> calls]
      ELSE RunEffects(afterMedium, nowTs, high \cup highToPersist,
                      med \cup mediumToPersist, calls \cup newCalls, u)

EffectsForgetSeen(list, nowTs, high, med, u) ==
  IF u = NoUser
  THEN [list |-> list, high |-> high, med |-> med, calls |-> {}]
  ELSE RunEffects(list, nowTs, {}, {}, {}, u)

\* The effects run only while the List Editor is mounted.
Effects(list, nowTs, high, med, u) ==
  IF u = NoUser
  THEN [list |-> list, high |-> high, med |-> med, calls |-> {}]
  ELSE RunEffects(list, nowTs, high, med, {}, u)

\* ------------------------------------------------------ history variables
\* lastWrite[i]: the most recent write to task i and where it came from: an
\* optimistic change of a handler, a change by an auto-priority effect, a
\* confirmed response, an applied change-feed event, or the rollback of a
\* handler whose own optimistic change was still the most recent one (NoWrite:
\* none since the list was last loaded, or the write removed the task).
Targets(list, id) == LET Target(t) == t.id = id IN SelectSeq(list, Target)
Escalated(lw, before, after) ==
  [i \in Ids |-> IF i \in IdsOf(after) /\ Targets(before, i) # Targets(after, i)
                 THEN Wrote(Find(after, i), "effect") ELSE lw[i]]

\* escLog: the (id, priority) pairs for which an auto-priority update call was
\* issued since the identity last changed, those for which a further call was
\* issued after the first, and those whose call returned an error result.
NoLog == [issued |-> {}, again |-> {}, failed |-> {}]
PairsOf(calls) == UNION {{<<i, c.priority>> : i \in c.ids} : c \in calls}
LogCalls(log, calls) ==
  [log EXCEPT !.issued = @ \cup PairsOf(calls),
              !.again = @ \cup (PairsOf(calls) \cap log.issued)]

\* pre: the list and the target's snapshot at the start of the toggle or edit
\* in flight; dirty: something else wrote to the list since.
PreAfter(newTasks) ==
  IF pre = NoPre \/ ~isMutating THEN NoPre
  ELSE [pre EXCEPT !.dirty = pre.dirty \/ newTasks # tasks]

Init ==
  \* the first run of the fetch effect, fetchTasks(null), has cleared the
  \* loading flag
  /\ user = NoUser /\ tasks = <<>> /\ tasksLoading = FALSE /\ tasksError = ""
  /\ isMutating = FALSE /\ mutationError = "" /\ optimisticEditRef = NoRef
  /\ editTaskId = NoId
  /\ autoHighPriorityRef = {} /\ autoMediumPriorityRef = {}
  /\ now = ClockAt(0)
  /\ db = {} /\ nextId = 1 /\ owners = [i \in Ids |-> NoUser]
  /\ feed = <<>> /\ extCount = 0
  /\ muts = {} /\ escs = {} /\ fetches = <<>>
  /\ last = Idle /\ lastWrite = NoWrites /\ escLog = NoLog /\ pre = NoPre
  /\ created = [i \in Ids |-> NoCreated] /\ rt = RtIdle /\ th = ThemeIdle
  /\ issued = 0


\* The trailing render of a step: the list the handler produced, then the
\* effects of the List Editor on it.
Commit(P, nowTs, u, high, med, baseEscs, lw, log) ==
  LET e == Effects(P, nowTs, high, med, u)
  IN  /\ tasks' = e.list
      /\ autoHighPriorityRef' = e.high
      /\ autoMediumPriorityRef' = e.med
      /\ escs' = baseEscs \cup e.calls
      /\ lastWrite' = Escalated(lw, P, e.list)
      /\ escLog' = LogCalls(log, e.calls)

\* ------------------------------------------------------- platform: reads
\* select ... eq(user_id) order(due_date asc): dated rows by timestamp, null
\* due dates last; rows of equal due date in id order.
RowBefore(a, b) ==
  IF a.due_date.has /\ b.due_date.has
  THEN a.due_date.ts < b.due_date.ts \/ (a.due_date.ts = b.due_date.ts /\ a.id < b.id)
  ELSE IF a.due_date.has # b.due_date.has THEN a.due_date.has
  ELSE a.id < b.id

RECURSIVE SeqOfRows(_)
SeqOfRows(S) ==
  IF S = {} THEN <<>>
  ELSE LET first == CHOOSE r \in S : \A q \in S \ {r} : RowBefore(r, q)
       IN  <<first>> \o SeqOfRows(S \ {first})

SelectTasks(u) == SeqOfRows({r \in db : r.user_id = u})

\* after: the tasks u created and saw confirmed before this call was issued,
\* and that nothing but the auto-priority rule has written since
FetchCall(u) ==
  [user |-> u, phase |-> "sent", data |-> <<>>,
   after |-> {i \in Ids : created[i].clean /\ created[i].confirmed /\ owners[i] = u}]
RemoveAt(s, i) == [k \in 1..(Len(s) - 1) |-> IF k < i THEN s[k] ELSE s[k + 1]]

\* ------------------------------------------------- State Owner: actions
\* onAuthStateChange / getSession with a session of u: setUser(u); the fetch
\* effect calls fetchTasks(u) up to its await; the List Editor mounts.
SignIn(u) ==
  /\ user = NoUser
  /\ Len(fetches) < MaxFetch
  /\ user' = u
  /\ tasksLoading' = TRUE
  /\ tasksError' = ""
  /\ fetches' = Append(fetches, FetchCall(u))
  /\ isMutating' = FALSE /\ mutationError' = "" /\ optimisticEditRef' = NoRef
  /\ editTaskId' = NoId
  /\ Commit(tasks, now, u, {}, {}, {}, lastWrite, NoLog)
  /\ muts' = {}
  /\ last' = Idle /\ pre' = NoPre
  /\ UNCHANGED <<now, serverVars, created, rt, th, issued>>

\* SIGNED_OUT: setUser(null); fetchTasks(null) clears the list; the List
\* Editor unmounts, the channel is removed, and nothing awaits the calls the
\* editor had in flight any more.
SignOut ==
  /\ user # NoUser
  /\ user' = NoUser
  /\ tasks' = <<>> /\ tasksLoading' = FALSE /\ tasksError' = ""
  /\ isMutating' = FALSE /\ mutationError' = "" /\ optimisticEditRef' = NoRef
  /\ editTaskId' = NoId
  /\ autoHighPriorityRef' = {} /\ autoMediumPriorityRef' = {}
  /\ feed' = <<>>
  /\ muts' = {} /\ escs' = {}
  /\ last' = Idle /\ lastWrite' = NoWrites /\ escLog' = NoLog /\ pre' = NoPre
  /\ UNCHANGED <<now, db, nextId, owners, extCount, fetches, created, rt, th, issued>>

\* The Retry button (TasksFixed.jsx:1270-1278): onRefreshTasks = fetchTasks(user)
Retry ==
  /\ user # NoUser
  /\ (tasksError # "" \/ mutationError # "")
  /\ ~tasksLoading
  /\ Len(fetches) < MaxFetch
  /\ tasksLoading' = TRUE
  /\ tasksError' = ""
  /\ fetches' = Append(fetches, FetchCall(user))
  /\ last' = Idle /\ pre' = PreAfter(tasks)
  /\ UNCHANGED <<user, tasks, editorVars, now, serverVars, muts, escs, lastWrite, escLog, created, rt, th, issued>>

\* The platform answers a select: with the rows of the user, with an error
\* result, or the request throws.
FetchServe(i, outcome) ==
  /\ i \in 1..Len(fetches)
  /\ fetches[i].phase = "sent"
  /\ fetches' = [fetches EXCEPT ![i] =
                   [user |-> @.user, phase |-> outcome,
                    data |-> IF outcome = "ok" THEN SelectTasks(@.user) ELSE <<>>,
                    after |-> {k \in @.after : created[k].clean}]]
  /\ last' = Idle /\ pre' = PreAfter(tasks)
  /\ UNCHANGED <<appVars, editorVars, now, serverVars, muts, escs, lastWrite, escLog, created, rt, th, issued>>

FetchResolveKeepsList(call) ==
  IF call.phase = "ok"
  THEN sortTasks([k \in 1..Len(call.data) |-> normalizeTask(call.data[k])])
  ELSE tasks

\* fetchTasks after its await (App.jsx:155-167)
FetchListOf(call) ==
  IF call.phase = "ok"
  THEN sortTasks([k \in 1..Len(call.data) |-> normalizeTask(call.data[k])])
  ELSE <<>>

FetchErrorOf(call) ==
  IF call.phase = "ok" THEN tasksError
  ELSE IF call.phase = "err" THEN ErrMsg
  ELSE "Failed to load tasks"

FetchResolve(i) ==
  /\ i \in 1..Len(fetches)
  /\ fetches[i].phase # "sent"
  /\ Commit(FetchListOf(fetches[i]), now, user,
            autoHighPriorityRef, autoMediumPriorityRef, escs, NoWrites, escLog)
  /\ tasksError' = FetchErrorOf(fetches[i])
  /\ tasksLoading' = FALSE
  /\ fetches' = RemoveAt(fetches, i)
  /\ last' = [op |-> "fetch", res |-> fetches[i].phase, id |-> NoId,
              user |-> fetches[i].user,
              after |-> {k \in fetches[i].after : created[k].clean},
              loaded |-> FetchListOf(fetches[i])]
  /\ pre' = PreAfter(tasks')
  /\ UNCHANGED <<user, isMutating, mutationError, optimisticEditRef, editTaskId,
                 now, serverVars, muts, created, rt, th, issued>>

\* The channel callback (App.jsx:290-295)
FeedWrite(lw, payload) ==
  IF payload.eventType = "DELETE"
  THEN [lw EXCEPT ![payload.oldId] = NoWrite]
  ELSE [lw EXCEPT ![payload.new.id] = Wrote(normalizeTask(payload.new), "feed")]

FeedDeliver ==
  /\ user # NoUser
  /\ feed # <<>>
  /\ Commit(applyRealtimeChange(tasks, Head(feed)), now, user,
            autoHighPriorityRef, autoMediumPriorityRef, escs,
            FeedWrite(lastWrite, Head(feed)), escLog)
  /\ feed' = Tail(feed)
  /\ LET id == IF Head(feed).eventType = "DELETE" THEN Head(feed).oldId
               ELSE Head(feed).new.id
     IN last' = [op |-> "feed", res |-> Head(feed).eventType, id |-> id,
                 user |-> NoUser, after |-> {}, shown |-> id \in IdsOf(tasks)]
  /\ pre' = PreAfter(tasks')
  /\ UNCHANGED <<user, tasksLoading, tasksError, isMutating, mutationError,
                 optimisticEditRef, editTaskId, now, db, nextId, owners, extCount,
                 muts, fetches, created, rt, th, issued>>

\* A day passes; the interval timer (TasksFixed.jsx:266-269) sets now.
Tick ==
  /\ now + DAY_IN_MS <= ClockAt(MaxDay)
  /\ now' = now + DAY_IN_MS
  /\ Commit(tasks, now', user, autoHighPriorityRef, autoMediumPriorityRef, escs,
            lastWrite, escLog)
  /\ last' = Idle
  /\ pre' = PreAfter(tasks')
  /\ UNCHANGED <<user, tasksLoading, tasksError, isMutating, mutationError,
                 optimisticEditRef, editTaskId, serverVars, muts, fetches, created, rt, th, issued>>

\* The tab was suspended for d days; the interval timer then sets now.
Advance(d) ==
  /\ now + d * DAY_IN_MS <= ClockAt(MaxDay + 1)
  /\ now' = now + d * DAY_IN_MS
  /\ Commit(tasks, now', user, autoHighPriorityRef, autoMediumPriorityRef, escs,
            lastWrite, escLog)
  /\ last' = Idle
  /\ pre' = PreAfter(tasks')
  /\ UNCHANGED <<user, tasksLoading, tasksError, isMutating, mutationError,
                 optimisticEditRef, editTaskId, serverVars, muts, fetches, created, rt, th, issued>>

\* ------------------------------------------------- List Editor: actions
disableMutations == isMutating \/ tasksLoading

MutCall(op, id, body, snapshot) ==
  [op |-> op, user |-> user, id |-> id, body |-> body, snapshot |-> snapshot,
   phase |-> "sent", data |-> NoRow, edit |-> editTaskId]

\* updateTasks with a map over the entries that carry the id
PatchId(list, id, Patch(_)) ==
  [i \in 1..Len(list) |-> IF list[i].id = id THEN Patch(list[i]) ELSE list[i]]

\* The outcome of a submit of the composer together with the form submitted
FormOutcome(res, rawTitle, date, hour, minute, period) ==
  [op |-> "create", res |-> res, id |-> NoId, user |-> NoUser, after |-> {},
   form |-> [title |-> rawTitle, date |-> date, hour |-> hour, minute |-> minute,
             period |-> period]]

AddTaskCheckNoTime(rawTitle, date, hour, minute, period) ==
  IF Trim(rawTitle) = "" THEN "title"
  ELSE IF ~validateDueDate(date, now) THEN "date"
  ELSE IF DueDateProblem(buildDueDateIso(date, hour, minute, period), now) = "date"
       THEN "due-date"
  ELSE IF DueDateProblem(buildDueDateIso(date, hour, minute, period), now) = "time"
       THEN "due-time"
  ELSE ""

\* handleAddTask up to its await (TasksFixed.jsx:845-889): "" when the form
\* passes, else the check that stopped it
AddTaskCheck(rawTitle, date, hour, minute, period) ==
  IF Trim(rawTitle) = "" THEN "title"
  ELSE IF ~validateDueDate(date, now) THEN "date"
  ELSE IF ~validateTimeFields(hour, minute) THEN "time"
  ELSE IF DueDateProblem(buildDueDateIso(date, hour, minute, period), now) = "date"
       THEN "due-date"
  ELSE IF DueDateProblem(buildDueDateIso(date, hour, minute, period), now) = "time"
       THEN "due-time"
  ELSE ""

\* The Save button of the composer is disabled while disableMutations
\* (TasksFixed.jsx:1132); detail: whether the history records which check
\* stopped an invalid form.
handleAddTask(rawTitle, rawDescription, date, hour, minute, period, priority, detail) ==
  /\ user # NoUser
  /\ ~disableMutations
  /\ IF isMutating
     THEN /\ last' = Outcome("create", "ignored", NoId)
          /\ UNCHANGED <<appVars, editorVars, now, serverVars, netVars,
                         lastWrite, escLog, pre, created, rt, th, issued>>
     ELSE IF AddTaskCheck(rawTitle, date, hour, minute, period) # ""
     THEN /\ last' = IF detail
                     THEN FormOutcome(AddTaskCheck(rawTitle, date, hour, minute, period),
                                      rawTitle, date, hour, minute, period)
                     ELSE Idle
          /\ pre' = NoPre
          /\ UNCHANGED <<appVars, editorVars, now, serverVars, netVars,
                         lastWrite, escLog, created, rt, th, issued>>
     ELSE /\ isMutating' = TRUE
          /\ mutationError' = ""
          /\ muts' = muts \cup
               {MutCall("create", NoId,
                        MkRow(NoId, user, Trim(rawTitle), Trim(rawDescription),
                              buildDueDateIso(date, hour, minute, period), FALSE, priority),
                        NoTask)}
          /\ last' = IF detail
                     THEN FormOutcome("issued", rawTitle, date, hour, minute, period)
                     ELSE Outcome("create", "issued", NoId)
          /\ pre' = NoPre
          /\ UNCHANGED <<appVars, optimisticEditRef, editTaskId,
                         autoHighPriorityRef, autoMediumPriorityRef, now,
                         serverVars, escs, fetches, lastWrite, escLog, created, rt, th>>
          /\ issued < MaxCalls /\ issued' = issued + 1

\* toggleTask up to its await (TasksFixed.jsx:550-578); the checkbox of a
\* row is disabled while disableMutations (TasksFixed.jsx:1368)
toggleTask(id) ==
  /\ user # NoUser
  /\ ~disableMutations
  /\ id \in IdsOf(tasks)
  /\ IF isMutating
     THEN /\ last' = Outcome("toggle", "ignored", id)
          /\ UNCHANGED <<appVars, editorVars, now, serverVars, netVars,
                         lastWrite, escLog, pre, created, rt, th, issued>>
     ELSE LET targetTask == Find(tasks, id)
              nextCompleted == ~targetTask.completed
              Flip(t) == [t EXCEPT !.completed = nextCompleted]
              P == handleChildTasksChange(PatchId(tasks, id, Flip))
          IN  /\ Commit(P, now, user, autoHighPriorityRef, autoMediumPriorityRef, escs,
                        [lastWrite EXCEPT ![id] = Wrote(Find(P, id), "optimistic")], escLog)
              /\ isMutating' = TRUE
              /\ mutationError' = ""
              /\ muts' = muts \cup
                   {MutCall("toggle", id,
                            [NoRow EXCEPT !.id = id, !.completed = nextCompleted],
                            targetTask)}
              /\ last' = Outcome("toggle", "issued", id)
              /\ pre' = [id |-> id, list |-> tasks, snapshot |-> targetTask,
                         dirty |-> tasks' # P]
              /\ UNCHANGED <<user, tasksLoading, tasksError, optimisticEditRef,
                             editTaskId, now, serverVars, fetches, created, rt, th>>
              /\ issued < MaxCalls /\ issued' = issued + 1

\* handleDeleteTask up to its await (TasksFixed.jsx:617-633).  The task menu
\* shows for a task of the list; its Delete item at TasksFixed.jsx:1440 is
\* never disabled.
handleDeleteTaskNoGate(taskId) ==
  /\ user # NoUser
  /\ taskId \in IdsOf(tasks)
  /\ isMutating' = TRUE
  /\ mutationError' = ""
  /\ muts' = muts \cup {MutCall("delete", taskId, NoRow, NoTask)}
  /\ last' = Outcome("delete", IF isMutating THEN "ignored" ELSE "issued", taskId)
  /\ pre' = PreAfter(tasks)
  /\ isMutating \/ issued < MaxCalls
  /\ issued' = IF isMutating THEN issued ELSE issued + 1
  /\ UNCHANGED <<appVars, optimisticEditRef, editTaskId,
                 autoHighPriorityRef, autoMediumPriorityRef, now,
                 serverVars, escs, fetches, lastWrite, escLog, created, rt, th>>

handleDeleteTask(taskId) ==
  /\ user # NoUser
  /\ taskId \in IdsOf(tasks)
  /\ IF isMutating
     THEN /\ last' = Outcome("delete", "ignored", taskId)
          /\ UNCHANGED <<appVars, editorVars, now, serverVars, netVars,
                         lastWrite, escLog, pre, created, rt, th, issued>>
     ELSE /\ isMutating' = TRUE
          /\ mutationError' = ""
          /\ muts' = muts \cup {MutCall("delete", taskId, NoRow, NoTask)}
          /\ last' = Outcome("delete", "issued", taskId)
          /\ pre' = NoPre
          /\ UNCHANGED <<appVars, optimisticEditRef, editTaskId,
                         autoHighPriorityRef, autoMediumPriorityRef, now,
                         serverVars, escs, fetches, lastWrite, escLog, created, rt, th>>
          /\ issued < MaxCalls /\ issued' = issued + 1

\* The Delete item clicked while the menu of a task the change feed has just
\* removed is still on screen: the List Editor's copy of the list follows
\* the State Owner's one effect later (TasksFixed.jsx:109-111), and until
\* then activeMenuTask (259-264) and the menu (1432-1445) come from the old
\* copy.  handleDeleteTask (617-633) looks nothing up.
handleDeleteTaskGone(taskId) ==
  /\ user # NoUser
  /\ last.op = "feed" /\ last.res = "DELETE" /\ last.id = taskId /\ last.shown
  /\ taskId \notin IdsOf(tasks)
  /\ ~isMutating
  /\ isMutating' = TRUE
  /\ mutationError' = ""
  /\ muts' = muts \cup {MutCall("delete", taskId, NoRow, NoTask)}
  /\ last' = Outcome("delete", "issued", taskId)
  /\ pre' = NoPre
  /\ UNCHANGED <<appVars, optimisticEditRef, editTaskId,
                 autoHighPriorityRef, autoMediumPriorityRef, now,
                 serverVars, escs, fetches, lastWrite, escLog, created, rt, th>>
  /\ issued < MaxCalls /\ issued' = issued + 1

\* handleMenuEdit -> startEditTask (TasksFixed.jsx:605-671)
startEditTask(id) ==
  /\ user # NoUser
  /\ id \in IdsOf(tasks)
  /\ editTaskId # id
  /\ editTaskId' = id
  /\ last' = Idle /\ pre' = PreAfter(tasks)
  /\ UNCHANGED <<appVars, isMutating, mutationError, optimisticEditRef,
                 autoHighPriorityRef, autoMediumPriorityRef, now,
                 serverVars, netVars, lastWrite, escLog, created, rt, th, issued>>

\* cancelEditTask; the Cancel button is disabled while disableMutations
\* (TasksFixed.jsx:1166-1173)
cancelEditTask ==
  /\ user # NoUser
  /\ editTaskId # NoId
  /\ ~disableMutations
  /\ editTaskId' = NoId
  /\ last' = Idle /\ pre' = PreAfter(tasks)
  /\ UNCHANGED <<appVars, isMutating, mutationError, optimisticEditRef,
                 autoHighPriorityRef, autoMediumPriorityRef, now,
                 serverVars, netVars, lastWrite, escLog, created, rt, th, issued>>


\* saveEditTask up to its await (TasksFixed.jsx:673-795): "" when the form
\* passes, else the check that stopped it
EditCheck(rawTitle, date, hour, minute, period) ==
  IF Trim(rawTitle) = "" THEN "title"
  ELSE IF date # NoInput /\ ~validateDueDate(date, now) THEN "date"
  ELSE IF DueDateProblem(buildDueDateIso(date, hour, minute, period), now) = "date"
       THEN "due-date"
  ELSE IF DueDateProblem(buildDueDateIso(date, hour, minute, period), now) = "time"
       THEN "due-time"
  ELSE ""

EditCompletedKeepsStatus(currentTask, status, dueDateIso) == status = "completed"

EditCompleted(currentTask, status, dueDateIso) ==
  IF status = "completed" /\ didExtendDueDate(currentTask.dueDate, dueDateIso)
  THEN FALSE
  ELSE status = "completed"

EditHasChanges(currentTask, title, description, dueDateIso, completed, priority) ==
  \/ Trim(currentTask.title) # title
  \/ Trim(currentTask.description) # description
  \/ normalizeDueDateValue(currentTask.dueDate) # dueDateIso
  \/ currentTask.completed # completed
  \/ currentTask.priority # priority

\* The Save changes button is disabled while isMutating (TasksFixed.jsx:1177)
saveEditTask(rawTitle, rawDescription, date, hour, minute, period, status, priority) ==
  /\ user # NoUser
  /\ editTaskId # NoId
  /\ ~isMutating
  /\ LET title == Trim(rawTitle)
         description == Trim(rawDescription)
         dueDateIso == buildDueDateIso(date, hour, minute, period)
         currentTask == Find(tasks, editTaskId)
         completed == EditCompleted(currentTask, status, dueDateIso)
         Merge(t) == [t EXCEPT !.title = title, !.description = description,
                               !.dueDate = dueDateIso, !.completed = completed,
                               !.priority = priority, !.updated_at = now]
         P == handleChildTasksChange(PatchId(tasks, editTaskId, Merge))
         EditOutcome(res) ==
           [op |-> "edit", res |-> res, id |-> editTaskId, user |-> NoUser,
            after |-> {}, status |-> status,
            edit |-> [title |-> title, description |-> description,
                      due |-> dueDateIso, priority |-> priority]]
     IN  IF EditCheck(rawTitle, date, hour, minute, period) # ""
         THEN /\ last' = EditOutcome("invalid")
              /\ pre' = NoPre
              /\ UNCHANGED <<appVars, editorVars, now, serverVars, netVars,
                             lastWrite, escLog, created, rt, th, issued>>
         ELSE IF currentTask = NoTask
         THEN /\ mutationError' = "Task not found. Please refresh and try again."
              /\ editTaskId' = NoId
              /\ last' = EditOutcome("notfound")
              /\ pre' = NoPre
              /\ UNCHANGED <<appVars, isMutating, optimisticEditRef,
                             autoHighPriorityRef, autoMediumPriorityRef, now,
                             serverVars, netVars, lastWrite, escLog, created, rt, th, issued>>
         ELSE IF ~EditHasChanges(currentTask, title, description, dueDateIso,
                                 completed, priority)
         THEN /\ editTaskId' = NoId
              /\ last' = EditOutcome("nochange")
              /\ pre' = NoPre
              /\ UNCHANGED <<appVars, isMutating, mutationError, optimisticEditRef,
                             autoHighPriorityRef, autoMediumPriorityRef, now,
                             serverVars, netVars, lastWrite, escLog, created, rt, th, issued>>
         ELSE /\ Commit(P, now, user, autoHighPriorityRef, autoMediumPriorityRef, escs,
                        [lastWrite EXCEPT ![editTaskId] = Wrote(Find(P, editTaskId), "optimistic")],
                        escLog)
              /\ optimisticEditRef' = [id |-> currentTask.id, snapshot |-> currentTask]
              /\ isMutating' = TRUE
              /\ mutationError' = ""
              /\ muts' = muts \cup
                   {MutCall("edit", editTaskId,
                            MkRow(editTaskId, user, title, description, dueDateIso,
                                  completed, priority),
                            currentTask)}
              /\ last' = EditOutcome("issued")
              /\ pre' = [id |-> editTaskId, list |-> tasks, snapshot |-> currentTask,
                         dirty |-> tasks' # P]
              /\ UNCHANGED <<user, tasksLoading, tasksError, editTaskId, now,
                             serverVars, fetches, created, rt, th>>
              /\ issued < MaxCalls /\ issued' = issued + 1


\* --------------------------------------------------- platform: writes
\* The channel of App.jsx:285-296 is filtered by user_id: an event reaches
\* the client only while the owner of the row is the signed-in user.
Emit(owner, payloads) == IF owner = user /\ user # NoUser THEN feed \o payloads ELSE feed
RoomFor(owner, n) == owner # user \/ Len(feed) + n <= MaxFeed

StoredDue(due) == IF due.has THEN RawDate(due.ts) ELSE NoDate
\* an update or delete that matched on the task id alone
MatchingIdOnly(id, u) == {r \in db : r.id = id}

Matching(id, u) == {r \in db : r.id = id /\ r.user_id = u}
Touched(ids) == [i \in Ids |-> IF i \in ids THEN NoCreated ELSE created[i]]

\* The row an update call leaves behind
UpdatedRow(r, c) ==
  IF c.op = "toggle" THEN [r EXCEPT !.completed = c.body.completed]
  ELSE [r EXCEPT !.title = c.body.title, !.description = c.body.description,
                 !.due_date = StoredDue(c.body.due_date),
                 !.completed = c.body.completed, !.priority = c.body.priority]

\* The platform executes a call of the List Editor and answers it, or the
\* call fails: with an error result ("err") or by throwing ("throw").  An update
\* with .single() that matches no row answers with an error result.
ServerMut(c, outcome) ==
  /\ c \in muts
  /\ c.phase = "sent"
  /\ IF outcome # "ok"
     THEN /\ muts' = (muts \ {c}) \cup {[c EXCEPT !.phase = outcome]}
          /\ UNCHANGED <<serverVars, created>>
     ELSE IF c.op = "create"
     THEN LET row == MkRow(nextId, c.user, c.body.title, c.body.description,
                           StoredDue(c.body.due_date), FALSE, c.body.priority)
          IN  /\ nextId <= MaxIds
              /\ RoomFor(c.user, 1)
              /\ db' = db \cup {row}
              /\ nextId' = nextId + 1
              /\ owners' = [owners EXCEPT ![nextId] = c.user]
              /\ feed' = Emit(c.user, <<Payload("INSERT", NoId, TRUE, row)>>)
              /\ muts' = (muts \ {c}) \cup {[c EXCEPT !.phase = "ok", !.data = row]}
              /\ created' = [created EXCEPT ![nextId] =
                   [clean |-> TRUE, confirmed |-> FALSE, title |-> row.title,
                    description |-> row.description, due |-> c.body.due_date,
                    priority |-> row.priority]]
              /\ UNCHANGED extCount
     ELSE IF c.op = "delete"
     THEN /\ RoomFor(c.user, 1)
          /\ db' = db \ Matching(c.id, c.user)
          /\ feed' = IF Matching(c.id, c.user) = {} THEN feed
                     ELSE Emit(c.user, <<Payload("DELETE", c.id, TRUE, NoRow)>>)
          /\ muts' = (muts \ {c}) \cup {[c EXCEPT !.phase = "ok"]}
          /\ created' = Touched({c.id})
          /\ UNCHANGED <<nextId, owners, extCount>>
     ELSE IF Matching(c.id, c.user) = {}
     THEN /\ muts' = (muts \ {c}) \cup {[c EXCEPT !.phase = "err"]}
          /\ UNCHANGED <<serverVars, created>>
     ELSE LET r == CHOOSE x \in Matching(c.id, c.user) : TRUE
              row == UpdatedRow(r, c)
          IN  /\ RoomFor(c.user, 1)
              /\ db' = (db \ {r}) \cup {row}
              /\ feed' = Emit(c.user, <<Payload("UPDATE", c.id, TRUE, row)>>)
              /\ muts' = (muts \ {c}) \cup {[c EXCEPT !.phase = "ok", !.data = row]}
              /\ created' = Touched({c.id})
              /\ UNCHANGED <<nextId, owners, extCount>>
  /\ last' = Idle
  /\ pre' = PreAfter(tasks)
  /\ UNCHANGED <<appVars, editorVars, now, escs, fetches, lastWrite, escLog, rt, th, issued>>

\* The message each handler shows for a failed call
FailureMessage(c) ==
  IF c.phase = "err" THEN ErrMsg
  ELSE CASE c.op = "create" -> "Failed to add task"
         [] c.op = "delete" -> "Failed to delete task"
         [] OTHER -> "Failed to update task"

\* The list a handler leaves after its await
RestoreNothing(c) == tasks

RestoreSnapshotReadds(c) ==
  IF c.op = "toggle"
  THEN handleChildTasksChange(Append(RemoveId(tasks, c.snapshot.id), c.snapshot))
  ELSE IF optimisticEditRef = NoRef THEN tasks
       ELSE handleChildTasksChange(
              Append(RemoveId(tasks, optimisticEditRef.id), optimisticEditRef.snapshot))

RestoreSnapshot(c) ==
  IF c.op = "toggle"
  THEN handleChildTasksChange(MapId(tasks, c.snapshot.id, c.snapshot))
  ELSE \* revertOptimisticEdit (TasksFixed.jsx:250-257)
       IF optimisticEditRef = NoRef THEN tasks
       ELSE handleChildTasksChange(
              MapId(tasks, optimisticEditRef.id, optimisticEditRef.snapshot))

ResolvedListNoAppend(c) ==
  IF c.phase = "ok"
  THEN CASE c.op = "create" -> tasks
         [] c.op = "delete" ->
              handleChildTasksChange(RemoveId(tasks, c.id))
         [] OTHER ->
              handleChildTasksChange(MapId(tasks, c.data.id, mapTaskRow(c.data)))
  ELSE IF c.op \in {"toggle", "edit"} THEN RestoreSnapshot(c)
  ELSE tasks

ResolvedListKeepsDeleted(c) ==
  IF c.phase = "ok"
  THEN CASE c.op = "create" ->
              handleChildTasksChange(Append(tasks, mapTaskRow(c.data)))
         [] c.op = "delete" -> tasks
         [] OTHER ->
              handleChildTasksChange(MapId(tasks, c.data.id, mapTaskRow(c.data)))
  ELSE IF c.op \in {"toggle", "edit"} THEN RestoreSnapshot(c)
  ELSE tasks

\* The calls a handler issues after its await: none on any path
\* (TasksFixed.jsx:579-594, 634-653, 796-810, 907-918)
ReissuedOnError(c) == IF c.phase = "err" THEN {[c EXCEPT !.phase = "sent"]} ELSE {}

Reissued(c) == {}

ResolvedList(c) ==
  IF c.phase = "ok"
  THEN CASE c.op = "create" ->
              handleChildTasksChange(Append(tasks, mapTaskRow(c.data)))
         [] c.op = "delete" ->
              handleChildTasksChange(RemoveId(tasks, c.id))
         [] OTHER ->
              handleChildTasksChange(MapId(tasks, c.data.id, mapTaskRow(c.data)))
  ELSE IF c.op \in {"toggle", "edit"} THEN RestoreSnapshot(c)
  ELSE tasks

ResolvedWrite(c) ==
  IF c.phase # "ok"
  THEN IF c.op \in {"toggle", "edit"} /\ lastWrite[c.id].src = "optimistic"
       THEN [lastWrite EXCEPT ![c.id] = Wrote(c.snapshot, "rollback")]
       ELSE lastWrite
  ELSE IF c.op = "create"
       THEN [lastWrite EXCEPT ![c.data.id] = Wrote(mapTaskRow(c.data), "response")]
  ELSE IF c.op = "delete" THEN [lastWrite EXCEPT ![c.id] = NoWrite]
  ELSE IF c.data.id \in IdsOf(tasks)
       THEN [lastWrite EXCEPT ![c.data.id] = Wrote(mapTaskRow(c.data), "response")]
  ELSE lastWrite

\* finally { setIsMutating(false) } of the four handlers (TasksFixed.jsx:592-594,
\* 651-653, 808-810, 916-918): the flag after the call c is handled
GateAfterThrowStaysClosed(c) == c.phase = "throw"

GateAfter(c) == FALSE

\* A handler after its await: toggleTask (579-594), handleDeleteTask
\* (634-653), saveEditTask (796-810), handleAddTask (907-918)
MutResolve(c) ==
  /\ c \in muts
  /\ c.phase # "sent"
  /\ Commit(ResolvedList(c), now, user, autoHighPriorityRef, autoMediumPriorityRef,
            escs, ResolvedWrite(c), escLog)
  /\ mutationError' = IF c.phase = "ok" THEN mutationError ELSE FailureMessage(c)
  /\ optimisticEditRef' = IF c.op = "edit" THEN NoRef ELSE optimisticEditRef
  /\ editTaskId' = IF c.phase = "ok" /\ c.op = "edit" THEN NoId
                   ELSE IF c.phase = "ok" /\ c.op = "delete" /\ c.edit = c.id THEN NoId
                   ELSE editTaskId
  /\ isMutating' = GateAfter(c)
  /\ muts' = (muts \ {c}) \cup Reissued(c)
  /\ created' = IF c.phase = "ok" /\ c.op = "create" /\ created[c.data.id].clean
                THEN [created EXCEPT ![c.data.id].confirmed = TRUE]
                ELSE created
  /\ last' = [op |-> c.op, res |-> IF c.phase = "ok" THEN "ok" ELSE "failed",
              id |-> IF c.op = "create" THEN c.data.id ELSE c.id,
              user |-> NoUser, after |-> {}, before |-> tasks,
              list |-> ResolvedList(c), data |-> c.data]
  /\ pre' = IF c.phase # "ok" /\ c.op \in {"toggle", "edit"} THEN pre ELSE NoPre
  /\ UNCHANGED <<user, tasksLoading, tasksError, now, serverVars, fetches, rt, th, issued>>

\* The update call of an auto-priority effect (TasksFixed.jsx:149-159,
\* 194-204): the platform executes it, answers with an error result, or the
\* request rejects (the promise has no catch).
RECURSIVE UpdateEvents(_)
UpdateEvents(rows) ==
  IF rows = {} THEN <<>>
  ELSE LET r == CHOOSE x \in rows : \A y \in rows : x.id <= y.id
       IN  <<Payload("UPDATE", r.id, TRUE, r)>> \o UpdateEvents(rows \ {r})

EscServer(c, outcome) ==
  /\ c \in escs
  /\ escs' = escs \ {c}
  /\ LET hit == {r \in db : r.id \in c.ids /\ r.user_id = c.user}
         new == {[r EXCEPT !.priority = c.priority] : r \in hit}
     IN  IF outcome = "ok"
         THEN /\ RoomFor(c.user, Cardinality(hit))
              /\ db' = (db \ hit) \cup new
              /\ feed' = Emit(c.user, UpdateEvents(new))
              /\ UNCHANGED <<editorVars>>
         ELSE IF outcome = "err"
         THEN /\ autoHighPriorityRef' =
                   IF c.priority = "high" THEN autoHighPriorityRef \ c.ids
                   ELSE autoHighPriorityRef
              /\ autoMediumPriorityRef' =
                   IF c.priority = "medium" THEN autoMediumPriorityRef \ c.ids
                   ELSE autoMediumPriorityRef
              /\ mutationError' = IF mutationError # "" THEN mutationError ELSE ErrMsg
              /\ UNCHANGED <<db, feed, isMutating, optimisticEditRef, editTaskId>>
         ELSE UNCHANGED <<db, feed, editorVars>>
  /\ last' = Idle
  /\ pre' = PreAfter(tasks)
  /\ escLog' = IF outcome = "err"
                THEN [escLog EXCEPT !.failed = @ \cup PairsOf({c})]
                ELSE escLog
  /\ UNCHANGED <<appVars, now, nextId, owners, extCount, muts, fetches,
                 lastWrite, created, rt, th, issued>>

\* ------------------------------------------- writes by other sessions
ExtInsert(u, title, due) ==
  /\ extCount < MaxExt
  /\ nextId <= MaxIds
  /\ RoomFor(u, 1)
  /\ LET row == MkRow(nextId, u, title, "", due, FALSE, "medium")
     IN  /\ db' = db \cup {row}
         /\ feed' = Emit(u, <<Payload("INSERT", NoId, TRUE, row)>>)
  /\ owners' = [owners EXCEPT ![nextId] = u]
  /\ nextId' = nextId + 1
  /\ extCount' = extCount + 1
  /\ last' = Idle /\ pre' = PreAfter(tasks)
  /\ UNCHANGED <<appVars, editorVars, now, netVars, lastWrite, escLog, created, rt, th, issued>>

ExtUpdate(r, field) ==
  /\ extCount < MaxExt
  /\ r \in db
  /\ RoomFor(r.user_id, 1)
  /\ LET row == IF field = "title"
                THEN [r EXCEPT !.title = IF r.title = "a" THEN "b" ELSE "a"]
                ELSE [r EXCEPT !.completed = ~r.completed]
     IN  /\ db' = (db \ {r}) \cup {row}
         /\ feed' = Emit(r.user_id, <<Payload("UPDATE", r.id, TRUE, row)>>)
  /\ extCount' = extCount + 1
  /\ created' = Touched({r.id})
  /\ last' = Idle /\ pre' = PreAfter(tasks)
  /\ UNCHANGED <<appVars, editorVars, now, nextId, owners, netVars, lastWrite, escLog, rt, th, issued>>

ExtDelete(r) ==
  /\ extCount < MaxExt
  /\ r \in db
  /\ RoomFor(r.user_id, 1)
  /\ db' = db \ {r}
  /\ feed' = Emit(r.user_id, <<Payload("DELETE", r.id, TRUE, NoRow)>>)
  /\ extCount' = extCount + 1
  /\ created' = Touched({r.id})
  /\ last' = Idle /\ pre' = PreAfter(tasks)
  /\ UNCHANGED <<appVars, editorVars, now, nextId, owners, netVars, lastWrite, escLog, rt, th, issued>>

\* ------------------------------------------------------- specification
TitleInputs == {"", "a", " b"}
DateInputs == {NoInput} \cup (0..MaxDay)
HourInputs == {9, 13}
MinuteInputs == {0, 60}
Periods == {"AM", "PM"}
Outcomes == {"ok", "err", "throw"}

\* Rows an earlier session of u1 left in the storage: two tasks of equal due
\* date and title.
SeedDue == RawDate(DAY_IN_MS + 21 * HOUR_IN_MS)
StoredRows == {MkRow(i, "u1", "a", "d", SeedDue, FALSE, "high") : i \in Ids}

InitStored ==
  /\ user = NoUser /\ tasks = <<>> /\ tasksLoading = FALSE /\ tasksError = ""
  /\ isMutating = FALSE /\ mutationError = "" /\ optimisticEditRef = NoRef
  /\ editTaskId = NoId
  /\ autoHighPriorityRef = {} /\ autoMediumPriorityRef = {}
  /\ now = ClockAt(0)
  /\ \E n \in 0..MaxIds :
       /\ db = {r \in StoredRows : r.id <= n}
       /\ nextId = n + 1
       /\ owners = [i \in Ids |-> IF i <= n THEN "u1" ELSE NoUser]
  /\ feed = <<>> /\ extCount = 0
  /\ muts = {} /\ escs = {} /\ fetches = <<>>
  /\ last = Idle /\ lastWrite = NoWrites /\ escLog = NoLog /\ pre = NoPre
  /\ created = [i \in Ids |-> NoCreated] /\ rt = RtIdle /\ th = ThemeIdle
  /\ issued = 0

\* One session of one user in the List Editor, with the platform, the change
\* feed and another session of the same user writing.
Next ==
  \/ SignIn("u1")
  \/ \E i \in 1..MaxFetch : FetchServe(i, "ok")
  \/ \E i \in 1..MaxFetch : FetchResolve(i)
  \/ FeedDeliver
  \/ Tick
  \/ \E t \in {"a", " b"}, da \in 0..MaxDay, p \in {"low", "high"} :
       handleAddTask(t, " d", da, 9, 0, "PM", p, FALSE)
  \/ \E i \in Ids : toggleTask(i)
  \/ \E i \in Ids : handleDeleteTask(i)
  \/ \E i \in Ids : startEditTask(i)
  \/ cancelEditTask
  \/ \E t \in {"a", " b"}, da \in {NoInput, MaxDay}, st \in {"active", "completed"} :
       saveEditTask(t, " d", da, 9, 0, "PM", st, "high")
  \/ \E c \in muts, o \in Outcomes : ServerMut(c, o)
  \/ \E c \in muts : MutResolve(c)
  \/ \E c \in escs, o \in Outcomes : EscServer(c, o)
  \/ \E r \in db, f \in {"title", "completed"} : ExtUpdate(r, f)
  \/ \E r \in db : ExtDelete(r)

Spec == InitStored /\ [][Next]_vars


\* ---------------------------------------- applyRealtimeChange on its own
\* The lists the State Owner can hold (sorted; an id may occur twice) and the payloads a channel callback can be handed.
RtDue == RawDate(DAY_IN_MS + 21 * HOUR_IN_MS)
RtTasks ==
  {[NoTask EXCEPT !.id = i, !.title = t, !.dueDate = d, !.priority = "medium"] :
     i \in Ids, t \in {"a", "b"}, d \in {NoDate, RtDue}}
RtSeqs == UNION {[1..n -> RtTasks] : n \in 0..MaxLen}
RtLists == {l \in RtSeqs : sortTasks(l) = l}
RtRows ==
  {MkRow(i, "u1", t, "", d, FALSE, "medium") :
     i \in Ids \cup {NoId}, t \in {"a", "b"}, d \in {NoDate, RtDue}}
WellFormed(payload) ==
  /\ ~payload.isNull
  /\ IF payload.eventType = "DELETE" THEN payload.oldId # NoId
     ELSE payload.hasNew /\ payload.new.id # NoId
RtPayloads ==
  {NullPayload}
    \cup {Payload("DELETE", i, h, NoRow) : i \in Ids \cup {NoId}, h \in BOOLEAN}
    \cup {Payload(e, i, FALSE, NoRow) : e \in {"INSERT", "UPDATE"}, i \in Ids \cup {NoId}}
    \cup {Payload(e, NoId, TRUE, r) : e \in {"INSERT", "UPDATE"}, r \in RtRows}

ApplyEvent(list, payload) ==
  /\ rt.n = 0
  /\ rt' = [n |-> 1, list |-> list, payload |-> payload,
            once |-> applyRealtimeChange(list, payload),
            twice |-> applyRealtimeChange(applyRealtimeChange(list, payload), payload)]
  /\ UNCHANGED <<appVars, editorVars, now, serverVars, netVars, histVars, issued, th>>

NextRT == \E l \in RtLists, p \in RtPayloads : ApplyEvent(l, p)

SpecRT == Init /\ [][NextRT]_vars


\* ------------------------------------------- identities and loading
\* Two identities signing in and out, the loads this causes, and other
\* sessions writing to the storage; the List Editor stays untouched.
NextAuth ==
  \/ \E u \in Users : SignIn(u)
  \/ SignOut
  \/ Retry
  \/ \E i \in 1..MaxFetch, o \in Outcomes : FetchServe(i, o)
  \/ \E i \in 1..MaxFetch : FetchResolve(i)
  \/ FeedDeliver
  \/ \E u \in Users, due \in {NoDate, RtDue} : ExtInsert(u, "b", due)
  \/ \E r \in db, f \in {"title", "completed"} : ExtUpdate(r, f)
  \/ \E r \in db : ExtDelete(r)

SpecAuth == InitStored /\ [][NextAuth]_vars

\* ------------------------------------------------------ the composer
\* Every form the composer can submit, valid or not, in one session.
NextForms ==
  \/ SignIn("u1")
  \/ \E i \in 1..MaxFetch, o \in Outcomes : FetchServe(i, o)
  \/ \E i \in 1..MaxFetch : FetchResolve(i)
  \/ FeedDeliver
  \/ Tick
  \/ \E t \in TitleInputs, da \in DateInputs, h \in HourInputs, m \in MinuteInputs,
        pe \in Periods :
       handleAddTask(t, " d", da, h, m, pe, "low", TRUE)
  \/ \E c \in muts, o \in Outcomes : ServerMut(c, o)
  \/ \E c \in muts : MutResolve(c)

SpecForms == Init /\ [][NextForms]_vars

\* ------------------------------------------------- create, then reload
\* A user who creates tasks, signs out and in again or retries a load, with
\* the clock advancing and the auto-priority calls being served.
NextReload ==
  \/ SignIn("u1")
  \/ SignOut
  \/ Retry
  \/ \E i \in 1..MaxFetch, o \in Outcomes : FetchServe(i, o)
  \/ \E i \in 1..MaxFetch : FetchResolve(i)
  \/ FeedDeliver
  \/ Tick
  \/ \E t \in {"a", " b"}, da \in 0..MaxDay, p \in Priorities :
       handleAddTask(t, " d", da, 9, 0, "PM", p, FALSE)
  \/ \E c \in muts, o \in Outcomes : ServerMut(c, o)
  \/ \E c \in muts : MutResolve(c)
  \/ \E c \in escs, o \in Outcomes : EscServer(c, o)

SpecReload == Init /\ [][NextReload]_vars

\* ------------------------------------------------------- the edit form
\* Stored tasks of u1 with and without due dates, completed or not, edited in
\* one session while the clock advances.
EditDues == {NoDate, RawDate(21 * HOUR_IN_MS), RawDate(DAY_IN_MS + 21 * HOUR_IN_MS)}
EditRows ==
  {MkRow(i, "u1", "a", "d", due, c, "high") : i \in Ids, due \in EditDues, c \in BOOLEAN}

InitEdit ==
  /\ user = NoUser /\ tasks = <<>> /\ tasksLoading = FALSE /\ tasksError = ""
  /\ isMutating = FALSE /\ mutationError = "" /\ optimisticEditRef = NoRef
  /\ editTaskId = NoId
  /\ autoHighPriorityRef = {} /\ autoMediumPriorityRef = {}
  /\ now = ClockAt(0)
  /\ \E n \in 1..MaxIds : \E rows \in [1..n -> EditRows] :
       /\ \A i \in 1..n : rows[i].id = i
       /\ db = {rows[i] : i \in 1..n}
       /\ nextId = n + 1
       /\ owners = [i \in Ids |-> IF i <= n THEN "u1" ELSE NoUser]
  /\ feed = <<>> /\ extCount = 0
  /\ muts = {} /\ escs = {} /\ fetches = <<>>
  /\ last = Idle /\ lastWrite = NoWrites /\ escLog = NoLog /\ pre = NoPre
  /\ created = [i \in Ids |-> NoCreated] /\ rt = RtIdle /\ th = ThemeIdle
  /\ issued = 0

NextEdit ==
  \/ SignIn("u1")
  \/ \E i \in 1..MaxFetch : FetchServe(i, "ok")
  \/ \E i \in 1..MaxFetch : FetchResolve(i)
  \/ FeedDeliver
  \/ Tick
  \/ \E i \in Ids : startEditTask(i)
  \/ cancelEditTask
  \/ \E t \in {"a", " b"}, da \in DateInputs, st \in {"active", "completed"} :
       saveEditTask(t, " d", da, 9, 0, "PM", st, "high")
  \/ \E c \in muts, o \in Outcomes : ServerMut(c, o)
  \/ \E c \in muts : MutResolve(c)

SpecEdit == InitEdit /\ [][NextEdit]_vars

\* ------------------------------------------------- auto-escalation
\* Stored tasks of u1, with the clock advancing by one or two
\* days at a time, the auto-priority calls being served or failing, reloads,
\* and the user signing out and in again.
EscDues == {RawDate(d * DAY_IN_MS + 21 * HOUR_IN_MS) : d \in 1..2}
EscRows ==
  {MkRow(1, "u1", "a", "d", due, c, p) :
     due \in EscDues, c \in BOOLEAN, p \in {"low", "medium"}}
UndatedRow == MkRow(2, "u1", "a", "d", NoDate, FALSE, "low")

InitEsc ==
  /\ user = NoUser /\ tasks = <<>> /\ tasksLoading = FALSE /\ tasksError = ""
  /\ isMutating = FALSE /\ mutationError = "" /\ optimisticEditRef = NoRef
  /\ editTaskId = NoId
  /\ autoHighPriorityRef = {} /\ autoMediumPriorityRef = {}
  /\ now = ClockAt(0)
  /\ \E r \in EscRows, n \in 1..2 :
       /\ db = IF n = 1 THEN {r} ELSE {r, UndatedRow}
       /\ nextId = n + 1
       /\ owners = [i \in Ids |-> IF i <= n THEN "u1" ELSE NoUser]
  /\ feed = <<>> /\ extCount = 0
  /\ muts = {} /\ escs = {} /\ fetches = <<>>
  /\ last = Idle /\ lastWrite = NoWrites /\ escLog = NoLog /\ pre = NoPre
  /\ created = [i \in Ids |-> NoCreated] /\ rt = RtIdle /\ th = ThemeIdle
  /\ issued = 0

NextEsc ==
  \/ SignIn("u1")
  \/ SignOut
  \/ Retry
  \/ \E i \in 1..MaxFetch : FetchServe(i, "ok")
  \/ \E i \in 1..MaxFetch : FetchResolve(i)
  \/ FeedDeliver
  \/ \E d \in 1..2 : Advance(d)
  \/ \E c \in escs, o \in Outcomes : EscServer(c, o)

SpecEsc == InitEsc /\ [][NextEsc]_vars

\* A task created with priority low, and the clock advancing.
NextLow ==
  \/ SignIn("u1")
  \/ \E i \in 1..MaxFetch : FetchServe(i, "ok")
  \/ \E i \in 1..MaxFetch : FetchResolve(i)
  \/ FeedDeliver
  \/ \E d \in 1..2 : Advance(d)
  \/ \E da \in 1..(MaxDay + 1) : handleAddTask("a", " d", da, 9, 0, "PM", "low", FALSE)
  \/ \E c \in muts, o \in Outcomes : ServerMut(c, o)
  \/ \E c \in muts : MutResolve(c)
  \/ \E c \in escs, o \in Outcomes : EscServer(c, o)

SpecLow == Init /\ [][NextLow]_vars

\* Two identities taking turns in the List Editor over rows of u1: a task
\* due on day 1, stored with priority medium, and an undated one.
ScopeRows ==
  {MkRow(1, "u1", "a", "d", SeedDue, FALSE, "medium"),
   MkRow(2, "u1", "a", "d", NoDate, FALSE, "low")}

InitScope ==
  /\ user = NoUser /\ tasks = <<>> /\ tasksLoading = FALSE /\ tasksError = ""
  /\ isMutating = FALSE /\ mutationError = "" /\ optimisticEditRef = NoRef
  /\ editTaskId = NoId
  /\ autoHighPriorityRef = {} /\ autoMediumPriorityRef = {}
  /\ now = ClockAt(0)
  /\ \E n \in 1..MaxIds :
       /\ db = {r \in ScopeRows : r.id <= n}
       /\ nextId = n + 1
       /\ owners = [i \in Ids |-> IF i <= n THEN "u1" ELSE NoUser]
  /\ feed = <<>> /\ extCount = 0
  /\ muts = {} /\ escs = {} /\ fetches = <<>>
  /\ last = Idle /\ lastWrite = NoWrites /\ escLog = NoLog /\ pre = NoPre
  /\ created = [i \in Ids |-> NoCreated] /\ rt = RtIdle /\ th = ThemeIdle
  /\ issued = 0

NextScope ==
  \/ \E u \in Users : SignIn(u)
  \/ SignOut
  \/ \E i \in 1..MaxFetch : FetchServe(i, "ok")
  \/ \E i \in 1..MaxFetch : FetchResolve(i)
  \/ FeedDeliver
  \/ Tick
  \/ handleAddTask("a", " d", MaxDay, 9, 0, "PM", "high", FALSE)
  \/ \E i \in Ids : toggleTask(i)
  \/ \E i \in Ids : handleDeleteTask(i)
  \/ \E i \in Ids : startEditTask(i)
  \/ saveEditTask(" b", " d", MaxDay, 9, 0, "PM", "active", "high")
  \/ \E c \in muts, o \in {"ok", "err"} : ServerMut(c, o)
  \/ \E c \in muts : MutResolve(c)
  \/ \E c \in escs : EscServer(c, "ok")

SpecScope == InitScope /\ [][NextScope]_vars

\* Calls that fail: a stored task with priority low that comes due, loads,
\* toggles and deletes with every outcome, and the Retry button.
RetryRows == {MkRow(1, "u1", "a", "d", RawDate(2 * DAY_IN_MS + 21 * HOUR_IN_MS), FALSE, "low")}

InitRetry ==
  /\ user = NoUser /\ tasks = <<>> /\ tasksLoading = FALSE /\ tasksError = ""
  /\ isMutating = FALSE /\ mutationError = "" /\ optimisticEditRef = NoRef
  /\ editTaskId = NoId
  /\ autoHighPriorityRef = {} /\ autoMediumPriorityRef = {}
  /\ now = ClockAt(0)
  /\ db = RetryRows /\ nextId = 2
  /\ owners = [i \in Ids |-> IF i = 1 THEN "u1" ELSE NoUser]
  /\ feed = <<>> /\ extCount = 0
  /\ muts = {} /\ escs = {} /\ fetches = <<>>
  /\ last = Idle /\ lastWrite = NoWrites /\ escLog = NoLog /\ pre = NoPre
  /\ created = [i \in Ids |-> NoCreated] /\ rt = RtIdle /\ th = ThemeIdle
  /\ issued = 0

NextRetry ==
  \/ SignIn("u1")
  \/ Retry
  \/ \E i \in 1..MaxFetch, o \in Outcomes : FetchServe(i, o)
  \/ \E i \in 1..MaxFetch : FetchResolve(i)
  \/ FeedDeliver
  \/ \E d \in 1..2 : Advance(d)
  \/ \E i \in Ids : toggleTask(i)
  \/ \E i \in Ids : handleDeleteTask(i)
  \/ \E c \in muts, o \in Outcomes : ServerMut(c, o)
  \/ \E c \in muts : MutResolve(c)
  \/ \E c \in escs, o \in Outcomes : EscServer(c, o)

SpecRetry == InitRetry /\ [][NextRetry]_vars
\* A task that another session deletes while its menu or its editor is open.
NextGone ==
  \/ SignIn("u1")
  \/ \E i \in 1..MaxFetch : FetchServe(i, "ok")
  \/ \E i \in 1..MaxFetch : FetchResolve(i)
  \/ FeedDeliver
  \/ \E r \in db : ExtDelete(r)
  \/ \E i \in Ids : startEditTask(i)
  \/ \E t \in {"", " b"}, st \in {"active", "completed"} :
       saveEditTask(t, " d", MaxDay, 9, 0, "PM", st, "high")
  \/ \E i \in Ids : toggleTask(i)
  \/ \E i \in Ids : handleDeleteTask(i)
  \/ \E i \in Ids : handleDeleteTaskGone(i)
  \/ \E c \in muts, o \in Outcomes : ServerMut(c, o)
  \/ \E c \in muts : MutResolve(c)

SpecGone == InitStored /\ [][NextGone]_vars
\* ------------------------------------------------------------ themes
\* The ThemeProvider over every local storage an earlier visit can have
\* left, with identities signing in and out and choosing themes.
StoredThemes == [ThemeKeys -> ThemeIds \cup {NoEntry, UnknownThemeId}]

InitTheme ==
  /\ user = NoUser /\ tasks = <<>> /\ tasksLoading = FALSE /\ tasksError = ""
  /\ isMutating = FALSE /\ mutationError = "" /\ optimisticEditRef = NoRef
  /\ editTaskId = NoId
  /\ autoHighPriorityRef = {} /\ autoMediumPriorityRef = {}
  /\ now = ClockAt(0)
  /\ db = {} /\ nextId = 1 /\ owners = [i \in Ids |-> NoUser]
  /\ feed = <<>> /\ extCount = 0
  /\ muts = {} /\ escs = {} /\ fetches = <<>>
  /\ last = Idle /\ lastWrite = NoWrites /\ escLog = NoLog /\ pre = NoPre
  /\ created = [i \in Ids |-> NoCreated] /\ rt = RtIdle
  /\ issued = 0
  /\ \E storage \in StoredThemes : th = ThemeMounted(storage)

NextTheme ==
  \/ \E u \in Users \cup {NoUser} : ThemeAuth(u)
  \/ \E id \in ThemeIds \cup {NoEntry, UnknownThemeId} : setTheme(id)

SpecTheme == InitTheme /\ [][NextTheme]_vars

\* One session in which the user makes one call after another: the count of
\* calls starts two below its bound.
InitGate ==
  /\ user = NoUser /\ tasks = <<>> /\ tasksLoading = FALSE /\ tasksError = ""
  /\ isMutating = FALSE /\ mutationError = "" /\ optimisticEditRef = NoRef
  /\ editTaskId = NoId
  /\ autoHighPriorityRef = {} /\ autoMediumPriorityRef = {}
  /\ now = ClockAt(0)
  /\ db = {r \in StoredRows : r.id = 1}
  /\ nextId = 2
  /\ owners = [i \in Ids |-> IF i = 1 THEN "u1" ELSE NoUser]
  /\ feed = <<>> /\ extCount = 0
  /\ muts = {} /\ escs = {} /\ fetches = <<>>
  /\ last = Idle /\ lastWrite = NoWrites /\ escLog = NoLog /\ pre = NoPre
  /\ created = [i \in Ids |-> NoCreated] /\ rt = RtIdle /\ th = ThemeIdle
  /\ issued = MaxCalls - 2

NextGate ==
  \/ SignIn("u1")
  \/ \E i \in 1..MaxFetch : FetchServe(i, "ok")
  \/ \E i \in 1..MaxFetch : FetchResolve(i)
  \/ FeedDeliver
  \/ handleAddTask("a", " d", MaxDay, 9, 0, "PM", "high", FALSE)
  \/ \E i \in Ids : toggleTask(i)
  \/ \E i \in Ids : handleDeleteTask(i)
  \/ \E i \in Ids : startEditTask(i)
  \/ saveEditTask(" b", " d", MaxDay, 9, 0, "PM", "active", "high")
  \/ \E c \in muts, o \in Outcomes : ServerMut(c, o)
  \/ \E c \in muts : MutResolve(c)

SpecGate == InitGate /\ [][NextGate]_vars

\* ------------------------------------------------------------ properties
HasDuplicateIds(list) ==
  \E i, j \in 1..Len(list) : i # j /\ list[i].id = list[j].id

SameFields(a, b) ==
  /\ a.id = b.id /\ a.title = b.title /\ a.description = b.description
  /\ a.dueDate.has = b.dueDate.has /\ a.dueDate.ts = b.dueDate.ts
  /\ a.completed = b.completed /\ a.priority = b.priority

\* C1: for every task id in the list, the entry's field values are those of
\* the most recent write for that id among an optimistic local change, a
\* confirmed response and an applied change-feed event.
C1_LastWriterWins ==
  \A i \in 1..Len(tasks) :
    lastWrite[tasks[i].id].src # "" => SameFields(tasks[i], lastWrite[tasks[i].id].val)

\* a failed toggle or edit has just been handled
FailureHandled == last.op \in {"toggle", "edit"} /\ last.res = "failed"

Count(list, x) == Cardinality({k \in 1..Len(list) : list[k] = x})
SameEntries(l1, l2) ==
  /\ Len(l1) = Len(l2)
  /\ \A k \in 1..Len(l1) : Count(l1, l1[k]) = Count(l2, l1[k])
Others(list, id) == LET Other(t) == t.id # id IN SelectSeq(list, Other)

\* C2 as stated: after a failed toggle or edit has been handled the list is
\* deep-equal to the list as it was immediately before the operation began.
C2_RollbackAsStated ==
  FailureHandled => last.list = pre.list

\* C2, amended: after a failed toggle or edit has been handled, every entry
\* with the target id equals the target as it was before the operation began
\* and every other entry is as it was just before the failure was handled;
\* when nothing else changed the list while the call was outstanding and the
\* target id occurs once, the list holds the entries it held before the
\* operation began.
C2_Rollback ==
  FailureHandled =>
    /\ \A k \in 1..Len(last.list) :
         last.list[k].id = pre.id => last.list[k] = pre.snapshot
    /\ Len(Targets(last.list, pre.id)) = Len(Targets(last.before, pre.id))
    /\ SameEntries(Others(last.list, pre.id), Others(last.before, pre.id))
    /\ (~pre.dirty /\ ~HasDuplicateIds(pre.list)) => SameEntries(last.list, pre.list)

\* a toggle failed after something else had changed the list, and the target
\* is still in the list
C2_Witness ==
  /\ FailureHandled /\ last.op = "toggle"
  /\ pre.dirty /\ pre.id \in IdsOf(last.list)

AllUnchangedButHistory ==
  UNCHANGED <<appVars, editorVars, now, serverVars, netVars, lastWrite, escLog, created, issued>>

\* C3: while a create, edit, toggle or delete call is outstanding, a further
\* attempt issues no call and changes no state; at most one such call is
\* outstanding at any time.
C3_MutationGate ==
  /\ [](Cardinality(muts) <= 1 /\ (isMutating <=> muts # {}))
  /\ [][(muts # {} /\ last'.op \in {"create", "toggle", "edit", "delete"}
                  /\ last'.res \in {"ignored", "issued"})
          => AllUnchangedButHistory]_vars

\* a second delete of the task whose delete call is outstanding was ignored
C3_Witness ==
  /\ last.op = "delete" /\ last.res = "ignored"
  /\ \E c \in muts : c.op = "delete" /\ c.id = last.id

MayPrecede(a, b) ==
  IF a.dueDate.has /\ b.dueDate.has
  THEN \/ a.dueDate.ts < b.dueDate.ts
       \/ a.dueDate.ts = b.dueDate.ts /\ TitleRank(a.title) <= TitleRank(b.title)
  ELSE IF a.dueDate.has # b.dueDate.has THEN a.dueDate.has
  ELSE TitleRank(a.title) <= TitleRank(b.title)

\* C4: the list is ordered: every task with a due date precedes every task
\* without one, dated tasks ascend by due timestamp with equal timestamps
\* ordered by title, and undated tasks are ordered by title.
C4_Sorted ==
  \A i, j \in 1..Len(tasks) : i < j => MayPrecede(tasks[i], tasks[j])

\* an edit has moved the first stored task behind the second
C4_Witness ==
  /\ Len(tasks) = 2 /\ tasks[1].id = 2 /\ tasks[2].id = 1
  /\ tasks[1].dueDate.has /\ ~tasks[2].dueDate.has

\* C6: applying the same well-formed inserted, updated or deleted event twice
\* in a row yields the same list as applying it once, for every list.
C6_ApplyTwiceEqualsOnce ==
  (rt.n = 1 /\ WellFormed(rt.payload)) => rt.twice = rt.once

\* C7: applyRealtimeChange leaves the list unchanged for every malformed
\* event: a null event, a deleted event whose old record has no id, an
\* inserted or updated event with no new record or whose new record has no id.
C7_MalformedLeavesList ==
  (rt.n = 1 /\ ~WellFormed(rt.payload)) => rt.once = rt.list


\* C5: every task in the State Owner's list belongs to the identity that is
\* signed in, and the list is empty while no identity is signed in.
C5_ListBelongsToUser ==
  /\ user = NoUser => tasks = <<>>
  /\ \A i \in 1..Len(tasks) : owners[tasks[i].id] = user

\* C8: when a load returns an error result or throws, the list is empty, the
\* error message is non-empty and the loading flag is false once fetchTasks
\* has handled it (the throw is caught inside fetchTasks).
C8_LoadFailure ==
  (last.op = "fetch" /\ last.res \in {"err", "throw"})
    => (tasks = <<>> /\ tasksError # "" /\ ~tasksLoading)

\* a load of the signed-in identity has thrown and has been handled
C8_Witness ==
  last.op = "fetch" /\ last.res = "throw" /\ last.user = user /\ user # NoUser


\* The forms the claim issued invalid
FormInvalid(form, nowTs) ==
  \/ Trim(form.title) = ""
  \/ form.date # NoInput /\ form.date * DAY_IN_MS < StartOfDay(nowTs)
  \/ form.hour < 1 \/ form.hour > 12
  \/ form.minute < 0 \/ form.minute > 59
  \/ /\ form.date # NoInput
     /\ form.date * DAY_IN_MS
          + ((form.hour % 12) + (IF form.period = "PM" THEN 12 ELSE 0)) * HOUR_IN_MS
          + form.minute * MINUTE_IN_MS <= nowTs

\* C10: a create whose title is empty, whose due date lies before today,
\* whose due date-time is not after now, or whose hour is outside 1..12 or
\* minute outside 0..59 issues no insert call, leaves the list unchanged and
\* leaves the mutation gate open.
C10_InvalidCreate ==
  [][("form" \in DOMAIN last' /\ FormInvalid(last'.form, now))
       => (muts' = muts /\ tasks' = tasks /\ ~isMutating' /\ last'.res # "issued")]_vars

\* a form with an hour outside 1..12 was submitted and stopped
C10_Witness ==
  /\ "form" \in DOMAIN last
  /\ last.form.hour = 13 /\ Trim(last.form.title) # "" /\ last.form.date # NoInput
  /\ last.res = "time" /\ ~isMutating /\ muts = {}


\* The created task i in the list a load has produced
Reloaded(i) == Find(last.loaded, i)
PriorityRank(p) == CASE p = "low" -> 1 [] p = "medium" -> 2 [] p = "high" -> 3 [] OTHER -> 0

\* a load issued after the confirmation of a create has been handled
ReloadedAfterCreate ==
  last.op = "fetch" /\ last.res = "ok" /\ last.after # {}

\* C9 as stated: after a create is confirmed, a subsequent load for the same
\* identity yields a list that contains the created task with the title,
\* description, due date, completed=false and priority that were submitted.
C9_RoundTripAsStated ==
  ReloadedAfterCreate =>
    \A i \in last.after :
      /\ i \in IdsOf(last.loaded)
      /\ Reloaded(i).title = created[i].title
      /\ Reloaded(i).description = created[i].description
      /\ Reloaded(i).dueDate.has = created[i].due.has
      /\ Reloaded(i).dueDate.ts = created[i].due.ts
      /\ Reloaded(i).completed = FALSE
      /\ Reloaded(i).priority = created[i].priority

\* C9, amended: ... and a priority that is the submitted one or, for a task
\* due at most two days ahead, a higher one set by the auto-priority rule;
\* this for a task that no edit, toggle, delete or write of another session
\* touched since its creation.
C9_RoundTrip ==
  ReloadedAfterCreate =>
    \A i \in last.after :
      /\ i \in IdsOf(last.loaded)
      /\ Reloaded(i).title = created[i].title
      /\ Reloaded(i).description = created[i].description
      /\ Reloaded(i).dueDate.has = created[i].due.has
      /\ Reloaded(i).dueDate.ts = created[i].due.ts
      /\ Reloaded(i).completed = FALSE
      /\ \/ Reloaded(i).priority = created[i].priority
         \/ /\ PriorityRank(Reloaded(i).priority) > PriorityRank(created[i].priority)
            /\ created[i].due.has
            /\ created[i].due.ts - now <= TWO_DAYS_IN_MS

\* a load issued after a confirmed create has put the task into the list of
\* the user who created it
C9_Witness ==
  /\ ReloadedAfterCreate /\ last.user = user
  /\ \E i \in last.after : Reloaded(i).priority = created[i].priority

\* an entry of the list that carries the values of a stored row
IsRecordOf(t, row) ==
  /\ t.id = row.id /\ t.title = row.title /\ t.description = row.description
  /\ t.dueDate.has = row.due_date.has /\ t.dueDate.ts = row.due_date.ts
  /\ t.completed = row.completed /\ t.priority = row.priority

C12_DeleteAsStated ==
  \A c \in muts : c.op = "delete" => c.id \in IdsOf(tasks)

\* C12, amended: the delete operation does not change the list when it
\* issues its call; when the call is confirmed every entry with the id is
\* removed and the other entries stay in place; when the call fails (error
\* result or throw) the list is unchanged and the mutation error message is
\* non-empty.
C12_DeleteNotOptimistic ==
  [][/\ (last'.op = "delete" /\ last'.res = "issued") =>
          (tasks' = tasks /\ last'.id \in IdsOf(tasks'))
     /\ (last'.op = "delete" /\ last'.res = "ok") =>
          tasks' = Others(tasks, last'.id)
     /\ (last'.op = "delete" /\ last'.res = "failed") =>
          (tasks' = tasks /\ mutationError' # "")]_vars

\* a confirmed delete has removed a task that was still in the list
C12_Witness ==
  /\ last.op = "delete" /\ last.res = "ok"
  /\ last.id \in IdsOf(last.before) /\ last.id \notin IdsOf(tasks)

\* C13: after a toggle whose update call failed (error result or throw) has
\* been handled, the completed flag of the task equals its value before the
\* toggle and the mutation error message is non-empty.
C13_ToggleFailure ==
  (last.op = "toggle" /\ last.res = "failed") =>
    /\ \A k \in 1..Len(tasks) :
         tasks[k].id = last.id => tasks[k].completed = pre.snapshot.completed
    /\ mutationError # ""

\* a failed toggle has been handled and has put the flag back
C13_Witness ==
  /\ last.op = "toggle" /\ last.res = "failed" /\ last.id \in IdsOf(tasks)
  /\ Find(last.before, last.id).completed # Find(tasks, last.id).completed

\* the update call of the edit in flight
EditCallBody == (CHOOSE c \in muts : c.op = "edit").body

\* C14: an edit (one that is carried out) of a task that was completed and
\* whose new due date is later than its previous due date yields
\* completed = FALSE both in the optimistic entry and in the update sent; an
\* edit that does not extend the due date keeps the completed value chosen in
\* the form.
C14_AutoReopen ==
  [][(last'.op = "edit" /\ last'.res = "issued") =>
       LET before == Find(tasks, last'.id)
           after == Find(tasks', last'.id)
           sent == (CHOOSE c \in muts' : c.op = "edit").body
           extended == /\ before.dueDate.has /\ after.dueDate.has
                       /\ after.dueDate.ts > before.dueDate.ts
       IN  /\ sent.completed = after.completed
           /\ sent.due_date.has = after.dueDate.has
           /\ sent.due_date.ts = after.dueDate.ts
           /\ (before.completed /\ extended) => ~after.completed
           /\ ~extended => (after.completed <=> last'.status = "completed")]_vars

\* a completed task was edited with status completed and a later due date,
\* and the edit in flight carries completed = FALSE
C14_Witness ==
  /\ last.op = "edit" /\ last.res = "issued" /\ last.status = "completed"
  /\ pre.snapshot.completed /\ pre.snapshot.dueDate.has
  /\ Find(tasks, last.id).dueDate.has
  /\ Find(tasks, last.id).dueDate.ts > pre.snapshot.dueDate.ts
  /\ ~Find(tasks, last.id).completed /\ ~EditCallBody.completed

\* the form of an edit holds the values the task has
SameAsTask(form, status, t) ==
  /\ form.title = t.title /\ form.description = t.description
  /\ form.due.has = t.dueDate.has /\ form.due.ts = t.dueDate.ts
  /\ (status = "completed") = t.completed
  /\ form.priority = t.priority

\* C15: when the edited title, description, due timestamp, completed flag and
\* priority all equal the task's current values, the edit closes the editor,
\* issues no network call, leaves the list unchanged and leaves the mutation
\* gate open.
C15_EditNoChange ==
  [][(/\ last'.op = "edit" /\ "edit" \in DOMAIN last'
      /\ editTaskId \in IdsOf(tasks)
      /\ SameAsTask(last'.edit, last'.status, Find(tasks, editTaskId)))
       => (editTaskId' = NoId /\ muts' = muts /\ tasks' = tasks /\ ~isMutating')]_vars

\* C16: while the List Editor is mounted, the list holds no not-completed
\* task with a priority other than high whose due date is past or at most one
\* day ahead of now, and no low-priority task whose due date is more than one
\* and at most two days ahead (the background check has raised them); and the
\* check never writes to a task without a due date.
C16_AutoEscalation ==
  user # NoUser =>
    /\ \A k \in 1..Len(tasks) :
         ~(/\ ~tasks[k].completed /\ tasks[k].priority # "high"
           /\ tasks[k].dueDate.has /\ tasks[k].dueDate.ts - now <= DAY_IN_MS)
    /\ \A k \in 1..Len(tasks) :
         ~(/\ tasks[k].priority = "low" /\ tasks[k].dueDate.has
           /\ tasks[k].dueDate.ts - now > DAY_IN_MS
           /\ tasks[k].dueDate.ts - now <= 2 * DAY_IN_MS)
    /\ \A i \in Ids : lastWrite[i].src = "effect" => lastWrite[i].val.dueDate.has
    /\ \A pr \in escLog.issued : \A r \in db : r.id = pr[1] => r.due_date.has

\* the check has raised a task to high while the list also holds a task
\* without a due date that kept a lower priority
C16_Witness ==
  /\ user # NoUser
  /\ \E i \in Ids : lastWrite[i].src = "effect" /\ lastWrite[i].val.priority = "high"
  /\ \E k \in 1..Len(tasks) : ~tasks[k].dueDate.has /\ tasks[k].priority = "low"

IssuedFor(p) == {pr[1] : pr \in {q \in escLog.issued : q[2] = p}}
FailedFor(p) == {pr[1] : pr \in {q \in escLog.failed : q[2] = p}}

CreatedLow ==
  {i \in Ids : /\ created[i].clean /\ created[i].confirmed
               /\ created[i].priority = "low" /\ i \in IdsOf(tasks)}
CallsFor(i) == {pr \in escLog.issued : pr[1] = i}
Ahead(i) == created[i].due.ts - now

\* C18 as stated: a task created with priority low and a future due date is
\* low in the list until now is within one day of its due date; from then on
\* its priority is high and exactly one priority-update call has been issued
\* for its id since its creation.
C18_LowToHighAsStated ==
  (user # NoUser) =>
    \A i \in CreatedLow : \A k \in 1..Len(tasks) : tasks[k].id = i =>
      IF Ahead(i) > DAY_IN_MS
      THEN tasks[k].priority = "low"
      ELSE /\ tasks[k].priority = "high"
           /\ CallsFor(i) = {<<i, "high">>}
           /\ <<i, "high">> \notin escLog.again

\* C18, amended: a task created with priority low is low in the list while
\* its due date is more than two days ahead, with no priority-update call
\* issued for it; while the due date is more than one and at most two days
\* ahead its priority is medium and the call to medium has been issued; once
\* now is within one day of the due date its priority is high and the call
\* to high has been issued, once unless it returned an error result; no
\* other priority-update call is issued for the id.
C18_LowToHigh ==
  (user # NoUser) =>
    \A i \in CreatedLow : \A k \in 1..Len(tasks) : tasks[k].id = i =>
      /\ Ahead(i) > 2 * DAY_IN_MS =>
           (tasks[k].priority = "low" /\ CallsFor(i) = {})
      /\ (Ahead(i) > DAY_IN_MS /\ Ahead(i) <= 2 * DAY_IN_MS) =>
           (tasks[k].priority = "medium" /\ CallsFor(i) = {<<i, "medium">>})
      /\ Ahead(i) <= DAY_IN_MS =>
           /\ tasks[k].priority = "high"
           /\ <<i, "high">> \in CallsFor(i)
           /\ <<i, "high">> \in escLog.again => <<i, "high">> \in escLog.failed
      /\ CallsFor(i) \subseteq {<<i, "medium">>, <<i, "high">>}
      /\ <<i, "medium">> \in escLog.again => <<i, "medium">> \in escLog.failed

\* a task created low has gone through medium and is now, within a day of
\* its due date, high, with one call issued for each escalation
C18_Witness ==
  /\ user # NoUser
  /\ \E i \in CreatedLow :
       /\ Ahead(i) <= DAY_IN_MS /\ Find(tasks, i).priority = "high"
       /\ CallsFor(i) = {<<i, "medium">>, <<i, "high">>}
       /\ escLog.again = {}

\* ---- C19: write scoping
\* The calls a step issues, and the rows of the storage a step adds, removes
\* or replaces
IssuedCalls == {c \in muts' \ muts : c.phase = "sent"} \cup (escs' \ escs)
RowsChanged == (db \ db') \cup (db' \ db)

\* C19: every create, toggle, edit, delete and auto-escalation call carries
\* the identity signed in when it is issued, and when the platform executes a
\* call the rows it inserts, updates or deletes are rows of the identity
\* the call carries.
C19_WriteScoping ==
  [][/\ \A c \in IssuedCalls : user' # NoUser /\ c.user = user'
     /\ RowsChanged # {} =>
          \E c \in muts \cup escs : \A r \in RowsChanged : r.user_id = c.user]_vars

\* u2, whose list shows a task of u1, has issued a toggle or delete for it;
\* the call carried u2, the platform has answered it and the row of u1 is
\* as it was stored
C19_Witness ==
  /\ user = "u2"
  /\ \E c \in muts :
       /\ c.op \in {"toggle", "delete"} /\ c.user = "u2" /\ c.phase # "sent"
       /\ \E r \in ScopeRows : r.id = c.id /\ r \in db

\* ---- C20: gate release
\* A step in which a handler finishes after its await
Resolves == \E c \in muts : c.phase # "sent" /\ muts' = muts \ {c}
MutatingOps == {"create", "toggle", "edit", "delete"}

\* C20: when a create, edit, toggle or delete call resolves, with success,
\* with an error result or by throwing, the gate is open and no attempt is
\* ignored while it is open; the gate is closed exactly while a call is
\* unresolved, and a closed gate opens by nothing but the call resolving.
C20_GateRelease ==
  /\ [](isMutating <=> \E c \in muts : TRUE)
  /\ [][Resolves => ~isMutating' /\ muts' = {}]_vars
  /\ [][isMutating /\ ~Resolves => isMutating']_vars
  /\ [][last'.op \in MutatingOps /\ last'.res = "ignored" => isMutating]_vars
  /\ [][last'.op \in MutatingOps /\ last'.res \in {"ok", "failed"} => Resolves]_vars

\* the call before threw or returned an error result, the gate opened, and
\* the next call has been accepted and is outstanding
C20_Witness ==
  /\ issued = MaxCalls /\ isMutating
  /\ \E c \in muts : c.phase = "sent"
  /\ db = {r \in StoredRows : r.id = 1}

\* ---- C21: convergence
\* Nothing is outstanding: no load, no call of the List Editor, no
\* auto-escalation update, and no change-feed event waits for delivery
Quiescent ==
  /\ user # NoUser /\ ~tasksLoading
  /\ muts = {} /\ escs = {} /\ fetches = <<>> /\ feed = <<>>

StoredFor(u) == {r \in db : r.user_id = u}

\* C21: once no persistence call is outstanding and every change-feed event
\* emitted for the signed-in identity has been applied, the list holds
\* exactly the tasks stored for that identity, one entry per stored row with
\* the row's title, description, due date, completed flag and priority.
C21_Convergence ==
  Quiescent =>
    /\ IdsOf(tasks) = {r.id : r \in StoredFor(user)}
    /\ ~HasDuplicateIds(tasks)
    /\ \A i \in 1..Len(tasks) : \E r \in StoredFor(user) : IsRecordOf(tasks[i], r)

\* ---- C22: theme isolation
\* The theme an identity gets from a stored entry, and the entry keyed by an
\* identity ("taskflow-theme-{userId}"; the unkeyed entry while signed out)
ThemeFor(entry) == IF entry \in ThemeIds THEN entry ELSE DEFAULT_THEME_ID
EntryOf(storage, u) ==
  storage[IF u = NoUser THEN "taskflow-theme" ELSE "taskflow-theme-" \o u]

\* C22: a step of the ThemeProvider changes no storage entry but the one keyed
\* by the identity signed in after it; only a setTheme changes the theme an
\* entry stands for, so a choice made under A changes A's entry alone; and
\* the theme active after B signs in is the one B's own entry stood for.
C22_ThemeIsolation ==
  [][/\ \A u \in Users \cup {NoUser} :
          u # th'.currentUser => EntryOf(th'.storage, u) = EntryOf(th.storage, u)
     /\ th'.last.op = "auth" =>
          \A u \in Users \cup {NoUser} :
            ThemeFor(EntryOf(th'.storage, u)) = ThemeFor(EntryOf(th.storage, u))
     /\ th'.last.op = "auth" /\ th'.currentUser # NoUser =>
          activeThemeId(th') = ThemeFor(EntryOf(th.storage, th'.currentUser))]_vars

\* u1 chose a theme, u2 is signed in now and sees another theme, its own;
\* the entry of u1 still holds the choice of u1
C22_Witness ==
  /\ th.currentUser = "u2" /\ th.last.op = "auth"
  /\ th.chose["u1"] = "ocean" /\ EntryOf(th.storage, "u1") = "ocean"
  /\ th.chose["u2"] = "contrast" /\ activeThemeId(th) = "contrast"

\* ---- C23: effect of one change-feed event
EntriesWith(list, id) == {k \in 1..Len(list) : list[k].id = id}

\* the entry the claim expects for a record: its fields, with a missing
\* description, completed flag or priority replaced by "", false, "medium"
RecordEntry(r) ==
  [id |-> r.id, title |-> r.title,
   description |-> IF "description" \in r.nulls THEN "" ELSE r.description,
   dueDate |-> IF "due_date" \in r.nulls THEN NoDate ELSE r.due_date,
   completed |-> IF "completed" \in r.nulls THEN FALSE ELSE r.completed,
   priority |-> IF "priority" \in r.nulls THEN "medium" ELSE r.priority,
   updated_at |-> NoStamp]

\* C23: after a deleted event for id i the list has no entry with id i and
\* the other entries are the ones it had; after an inserted or updated event
\* with record r the list has exactly one entry with id r.id, the normalized
\* r, and the other entries are the ones it had.
C23_EffectOfEvent ==
  (rt.n = 1 /\ WellFormed(rt.payload)) =>
    IF rt.payload.eventType = "DELETE"
    THEN /\ EntriesWith(rt.once, rt.payload.oldId) = {}
         /\ SameEntries(rt.once, Others(rt.list, rt.payload.oldId))
    ELSE /\ Cardinality(EntriesWith(rt.once, rt.payload.new.id)) = 1
         /\ Find(rt.once, rt.payload.new.id) = RecordEntry(rt.payload.new)
         /\ SameEntries(Others(rt.once, rt.payload.new.id),
                        Others(rt.list, rt.payload.new.id))

\* ---- C24: no automatic retry
\* A step nobody asked for: the clock, a change-feed event, a response
\* arriving or being handled
Automatic ==
  /\ user' = user
  /\ \/ now' # now
     \/ Len(feed') < Len(feed)
     \/ Len(fetches') <= Len(fetches) /\ fetches' # fetches
     \/ \E c \in muts : c \notin muts'
     \/ \E c \in escs : c \notin escs'
SentIn(calls) == {c \in calls : c.phase = "sent"}
ReissuedPairs == PairsOf(escs' \ escs) \cap escLog.failed

InvokedForMissing ==
  /\ last'.op \in {"toggle", "edit", "delete"}
  /\ last'.res \in {"issued", "notfound", "nochange", "ignored"}
  /\ last'.id \notin IdsOf(tasks)

\* C25: a toggle, edit or delete invoked for a task id that is no longer in
\* the list surfaces an error message, leaves the list unchanged, issues no
\* call and leaves the mutation gate open.
C25_NotFound ==
  [][InvokedForMissing =>
       /\ mutationError' # ""
       /\ tasks' = tasks
       /\ muts' = muts /\ ~isMutating']_vars

\* ---- C26: the loading flag
\* A loadAll call issued for the identity that is signed in has not resolved
Outstanding == user # NoUser /\ \E i \in 1..Len(fetches) : fetches[i].user = user

\* C26: the State Owner's loading flag is true in every state in which a
\* loadAll call for the signed-in identity is outstanding and false when none
\* is outstanding, overlapping calls included.
C26_LoadingFlag == tasksLoading <=> Outstanding

\* ---- C27: unique ids
\* C27: in every reachable state no two entries of the task list share the
\* same id, whatever the order of create confirmations, loadAll responses
\* and change-feed events.
C27_UniqueIds == user # NoUser => ~HasDuplicateIds(tasks)

\* ---- C28: a loadAll response and newer state
\* The list shows for id what the storage holds for it: the stored row's
\* values, or no entry when no row is stored
UpToDate(list, id) ==
  IF \E r \in StoredFor(user) : r.id = id
  THEN /\ id \in IdsOf(list)
       /\ \A i \in 1..Len(list) : list[i].id = id =>
            \E r \in StoredFor(user) : r.id = id /\ IsRecordOf(list[i], r)
  ELSE id \notin IdsOf(list)

\* A confirmation or a change-feed event has written the entry of id since the
\* last load, or the step before has removed the entry of id
Applied(id) ==
  \/ lastWrite[id] # NoWrite
  \/ last.id = id /\ last.op = "feed" /\ last.res = "DELETE" /\ last.shown
  \/ last.id = id /\ last.op = "delete" /\ last.res = "ok"

\* C28: a loadAll response never undoes newer state: what a confirmed call or
\* an applied change-feed event has put into the list, and the storage still
\* holds, is still in the list after the response of a loadAll is handled.
C28_LoadKeepsNewer ==
  [][(last'.op = "fetch" /\ last'.res = "ok" /\ last'.user = user) =>
       \A id \in Ids : (Applied(id) /\ UpToDate(tasks, id)) => UpToDate(tasks', id)]_vars

\* ---- C29: no mutation during loading
\* C29: no create, edit, toggle or delete call is issued while a loadAll call
\* is outstanding and the loading flag is set, whichever control the user
\* uses.
C29_NoCallWhileLoading == [][issued' > issued => ~tasksLoading]_vars

\* ---- C30: rollback and a task the change feed has removed
\* The call of a toggle or an edit has failed and its task is not in the list
\* any more
FailedForRemoved == FailureHandled /\ last.id \notin IdsOf(last.before)

\* C30: when the change feed has removed task T while a toggle or an edit of
\* T was outstanding and that call fails, the rollback does not put T back:
\* T stays absent and every other entry is as it was before the rollback.
C30_NoResurrection ==
  FailedForRemoved =>
    /\ last.id \notin IdsOf(last.list) /\ last.id \notin IdsOf(tasks)
    /\ last.list = last.before

C30_Witness ==
  /\ FailedForRemoved
  /\ last.before # <<>>
  /\ \A r \in db : r.id # last.id

====
